---- MODULE Spec2Model ----
(***************************************************************************)
(* Dependency graph engine and cascade orchestration engine of             *)
(* repo-maintenance: DependencyResolver (getAffected), CascadeService      *)
(* (createPlan, startExecution, executeLoop, executeStep, waitForCi and    *)
(* the abort/pause/resume/skipStep/setPublishedVersion controls) and the   *)
(* TaskQueue the execution loop drives.                                    *)
(*                                                                         *)
(* The server is one Node.js process.  A state of the model is the state   *)
(* between two event-loop tasks; code that runs between two awaits of an   *)
(* I/O operation runs without interleaving, so control operations are      *)
(* only enabled when no promise continuation of the loop is pending        *)
(* (Quiescent).                                                            *)
(***************************************************************************)
EXTENDS Integers, Sequences, FiniteSets, TLC

VARIABLES
  repos,              \* the Repo list (DependencyResolver.repos / executionRepos)
  plan,               \* the CascadePlan (createPlan's result, execution.plan)
  parallelLimit,      \* CascadeService.parallelLimit
  graph,              \* the DependencyGraph last built by the resolver (buildGraph)
  status,             \* execution.status, "none" while executions has no entry
  currentLayerIndex,  \* execution.currentLayerIndex
  completedCount,     \* execution.completedCount
  failedCount,        \* execution.failedCount
  skippedCount,       \* execution.skippedCount
  stepStatus,         \* step.status of every step of the plan, by repoId
  publishedVersion,   \* step.publishedVersion, NoVersion when unset
  ciStatus,           \* step.ciStatus, "unset" when undefined
  abortSignal,        \* abortSignals.get(id)
  pauseSignal,        \* pauseSignals.get(id)
  loop,               \* the running executeLoop call: pc, loop variable i, caller
  queue,              \* the TaskQueue.run call of the current layer
  ci,                 \* the CI wait of the current layer: ciSteps, position, attempt
  history,            \* the entries handed to saveToHistory, in call order
  lastCall,           \* the operation or query called in the last step and its result
  resumes             \* number of accepted resume calls

vars == <<repos, plan, parallelLimit, graph, status, currentLayerIndex, completedCount,
          failedCount, skippedCount, stepStatus, publishedVersion, ciStatus,
          abortSignal, pauseSignal, loop, queue, ci, history, lastCall, resumes>>

execVars == <<parallelLimit, graph, status, currentLayerIndex, completedCount,
              failedCount, skippedCount, stepStatus, publishedVersion, ciStatus,
              abortSignal, pauseSignal, loop, queue, ci, history, lastCall, resumes>>

----------------------------------------------------------------------------
(* Bounds of the model *)

\* repo ids are 1..NumNodes in the planning specification
NumNodes == 3
\* the configured parallel limit ranges over 1..MaxParallel
MaxParallel == 2
\* resume is accepted at most MaxResumes times in one run
MaxResumes == 2
\* in Spec a CI run reports success or failure within MaxCiPolls status queries
MaxCiPolls == 2

(* Program constants *)

\* waitForCi: const maxAttempts = 80
maxAttempts == 80

NoVersion == 0
NoGraph == [nodes |-> <<>>, edges |-> <<>>, layers |-> <<>>]
NoPlan == [sourceRepoId |-> 0, layers |-> <<>>, totalRepos |-> 0,
           waitForCi |-> FALSE, runTests |-> FALSE]

Min(a, b) == IF a <= b THEN a ELSE b

Range(f) == {f[x] : x \in DOMAIN f}

----------------------------------------------------------------------------
(* Repos.  A repo's npm package name is identified with its id (the scanner *)
(* maps package names to repo ids one to one); versions are numbers.        *)

\* a repo's local manifest version, and the version the registry may hold for it
LocalVersion(id) == 10 + id
RegistryVersion(id) == 20 + id

\* the ascending sequence of a finite set of integers
RECURSIVE SortedSeq(_)
SortedSeq(S) ==
  IF S = {} THEN <<>>
  ELSE LET m == CHOOSE x \in S : \A y \in S : x <= y
       IN <<m>> \o SortedSeq(S \ {m})

\* interface Repo: id, version, dependencies (repoId, versionSpec), dependents.
\* dependents is the reverse lookup over the repo list, in list order.
MakeRepo(id, deps, ids) ==
  [id |-> id, version |-> LocalVersion(id),
   dependencies |-> [k \in DOMAIN SortedSeq(deps[id]) |->
                       [repoId |-> SortedSeq(deps[id])[k],
                        versionSpec |-> LocalVersion(SortedSeq(deps[id])[k])]],
   dependents |-> SelectSeq(ids, LAMBDA r : id \in deps[r])]

\* the repo list of a dependency relation deps (id -> set of ids) over the ids
MakeRepos(ids, deps) == [k \in DOMAIN ids |-> MakeRepo(ids[k], deps, ids)]

\* repoMap.has(id)
HasRepo(rs, id) == \E k \in DOMAIN rs : rs[k].id = id

\* repoMap.get(id), for an id the map has
GetRepo(rs, id) == rs[CHOOSE k \in DOMAIN rs : rs[k].id = id]

\* the ids a repo's dependencies resolve to
DepIds(r) == {r.dependencies[k].repoId : k \in DOMAIN r.dependencies}

----------------------------------------------------------------------------
(* DependencyResolver.getAffected *)

\* the (id, dependentId) pairs the two nested for loops of bfs walk, in order
RECURSIVE DependentPairs(_, _, _)
DependentPairs(rs, startIds, k) ==
  IF k > Len(startIds) THEN <<>>
  ELSE LET id == startIds[k]
           here == IF HasRepo(rs, id)
                     THEN [j \in DOMAIN GetRepo(rs, id).dependents |->
                             <<id, GetRepo(rs, id).dependents[j]>>]
                     ELSE <<>>
       IN here \o DependentPairs(rs, startIds, k + 1)

\* parentPaths.get(id) || [repoId]
ParentPath(affected, repoId, id) ==
  IF \E k \in DOMAIN affected : affected[k].id = id
    THEN affected[CHOOSE k \in DOMAIN affected : affected[k].id = id].dependencyPath
    ELSE <<repoId>>

\* one level of bfs: skip visited dependents, record the others
RECURSIVE Visit(_, _, _, _, _, _)
Visit(pairs, k, layer, visited, affected, repoId) ==
  IF k > Len(pairs) THEN [visited |-> visited, affected |-> affected]
  ELSE LET id == pairs[k][1]
           dependentId == pairs[k][2]
       IN IF dependentId \in visited
            THEN Visit(pairs, k + 1, layer, visited, affected, repoId)
            ELSE Visit(pairs, k + 1, layer, visited \cup {dependentId},
                       Append(affected,
                              [id |-> dependentId, layer |-> layer,
                               dependencyPath |->
                                 Append(ParentPath(affected, repoId, id), dependentId)]),
                       repoId)

RECURSIVE bfsDepthFirst(_, _, _, _, _, _)
\* a variant that follows each newly found dependent at once, before the other
\* dependents of the same level
bfsDepthFirst(rs, repoId, startIds, layer, visited, affected) ==
  LET fresh == SelectSeq(DependentPairs(rs, startIds, 1), LAMBDA pr : pr[2] \notin visited)
  IN IF fresh = <<>> THEN affected
     ELSE LET id == fresh[1][1]
              dependentId == fresh[1][2]
              deeper == bfsDepthFirst(rs, repoId, <<dependentId>>, layer + 1,
                                      visited \cup {dependentId},
                                      Append(affected,
                                             [id |-> dependentId, layer |-> layer,
                                              dependencyPath |->
                                                Append(ParentPath(affected, repoId, id),
                                                       dependentId)]))
          IN bfsDepthFirst(rs, repoId, startIds, layer,
                           visited \cup {deeper[k].id : k \in DOMAIN deeper}, deeper)

RECURSIVE bfs(_, _, _, _, _, _)
bfs(rs, repoId, startIds, layer, visited, affected) ==
  LET r == Visit(DependentPairs(rs, startIds, 1), 1, layer, visited, affected, repoId)
      found == SubSeq(r.affected, Len(affected) + 1, Len(r.affected))
      nextIds == [k \in DOMAIN found |-> found[k].id]
  IN IF Len(nextIds) > 0
       THEN bfs(rs, repoId, nextIds, layer + 1, r.visited, r.affected)
       ELSE r.affected

\* a variant that leaves the source unvisited
InitialVisitedNone(repoId) == {}

\* visited.add(repoId): the source counts as visited before the search starts
InitialVisited(repoId) == {repoId}

getAffected(rs, repoId) ==
  LET affected == bfs(rs, repoId, <<repoId>>, 1, InitialVisited(repoId), <<>>)
  IN [sourceId |-> repoId, affected |-> affected, totalCount |-> Len(affected)]

----------------------------------------------------------------------------
(* CascadeService.createPlan *)

\* the repo ids of one layerMap entry, in insertion order
LayerRepoIds(affected, layer) ==
  LET sel == SelectSeq(affected, LAMBDA a : a.layer = layer)
  IN [k \in DOMAIN sel |-> sel[k].id]

\* depsToUpdate of one step: the dependencies resolvedVersions has an entry for
DepsToUpdate(rs, repoId, resolved) ==
  IF ~HasRepo(rs, repoId) THEN <<>>
  ELSE LET sel == SelectSeq(GetRepo(rs, repoId).dependencies,
                            LAMBDA d : d.repoId \in DOMAIN resolved)
       IN [k \in DOMAIN sel |->
             [npmName |-> sel[k].repoId, fromVersion |-> sel[k].versionSpec,
              toVersion |-> resolved[sel[k].repoId]]]

\* a variant that never extends resolvedVersions
ResolveLayerSourceOnly(rs, repoIds, resolved) == resolved

\* resolvedVersions after a layer: each step's repo mapped to its local version
ResolveLayer(rs, repoIds, resolved) ==
  LET known == {repoIds[k] : k \in {j \in DOMAIN repoIds : HasRepo(rs, repoIds[j])}}
  IN [p \in DOMAIN resolved \cup known |->
        IF p \in known THEN GetRepo(rs, p).version ELSE resolved[p]]

\* a variant that marks every layer parallel
LayerModeAlwaysParallel(steps) == "parallel"

\* layer.mode
LayerMode(steps) == IF Len(steps) > 1 THEN "parallel" ELSE "sequential"

\* the for loop over sortedLayers
RECURSIVE BuildLayers(_, _, _, _, _)
BuildLayers(rs, affected, sortedLayers, k, resolved) ==
  IF k > Len(sortedLayers) THEN <<>>
  ELSE LET layerIndex == sortedLayers[k]
           repoIds == LayerRepoIds(affected, layerIndex)
           steps == [j \in DOMAIN repoIds |->
                       [repoId |-> repoIds[j], status |-> "pending",
                        depsToUpdate |-> DepsToUpdate(rs, repoIds[j], resolved)]]
       IN <<[layerIndex |-> layerIndex, mode |-> LayerMode(steps), steps |-> steps]>>
          \o BuildLayers(rs, affected, sortedLayers, k + 1,
                         ResolveLayer(rs, repoIds, resolved))

\* published: what resolvePublishedVersion returns for the source package
createPlan(sourceRepoId, rs, published, options) ==
  LET affected == getAffected(rs, sourceRepoId)
      hasSource == HasRepo(rs, sourceRepoId)
      sourcePublishedVersion == IF hasSource THEN published ELSE NoVersion
      sourceVersion == IF sourcePublishedVersion # NoVersion
                         THEN sourcePublishedVersion
                         ELSE GetRepo(rs, sourceRepoId).version
      sortedLayers == SortedSeq({affected.affected[k].layer : k \in DOMAIN affected.affected})
      resolved == IF hasSource THEN (sourceRepoId :> sourceVersion) ELSE <<>>
  IN [sourceRepoId |-> sourceRepoId,
      layers |-> BuildLayers(rs, affected.affected, sortedLayers, 1, resolved),
      totalRepos |-> affected.totalCount,
      waitForCi |-> options.waitForCi,
      runTests |-> options.runTests]

----------------------------------------------------------------------------
(* Executions: state shared by the loop and the control operations *)

NoCall == [op |-> "none", ret |-> FALSE]
\* committed: the steps of the run for which git commit was issued and succeeded
NoQueue == [items |-> <<>>, index |-> 0, ready |-> 0, active |-> {}, committed |-> {}]
NoCi == [steps |-> <<>>, k |-> 0, attempt |-> 0]
NoLoop == [pc |-> "idle", i |-> 0, origin |-> "none"]

\* the repo ids of the steps of layer i (0-based, as the loop variable i)
StepIds(i) == [k \in DOMAIN plan.layers[i + 1].steps |-> plan.layers[i + 1].steps[k].repoId]

\* the repo ids of all steps of plan p
PlanSteps(p) == UNION {{p.layers[l].steps[k].repoId : k \in DOMAIN p.layers[l].steps} :
                       l \in DOMAIN p.layers}

\* the position (0-based) of the layer holding step s
LayerOf(s) == CHOOSE i \in 0..(Len(plan.layers) - 1) : s \in Range(StepIds(i))

InProgress == {"updating-deps", "installing", "testing", "committing", "pushing"}

\* no promise continuation of the loop is pending: the process is waiting for I/O
Quiescent ==
  /\ loop.pc \in {"idle", "queue", "ciSlug", "ciSleep", "ciQuery", "ciResolve",
                  "saving", "thrown"}
  /\ loop.pc = "queue" => (queue.ready = 0 /\ queue.active # {})

\* a variant of saveToHistory called before the status is assigned
HistoryEntryStale(st) ==
  [status |-> status, completedCount |-> completedCount, failedCount |-> failedCount]

\* the CascadeHistoryEntry saveToHistory builds from the execution
HistoryEntry(st) ==
  [status |-> st, completedCount |-> completedCount, failedCount |-> failedCount]

----------------------------------------------------------------------------
(* CascadeService.startExecution *)

StartExecution(p, rs) ==
  /\ status = "none"
  /\ plan' = p
  /\ repos' = rs
  /\ status' = "running"
  /\ currentLayerIndex' = 0
  /\ completedCount' = 0
  /\ failedCount' = 0
  /\ skippedCount' = 0
  /\ stepStatus' = [s \in PlanSteps(p) |-> "pending"]
  /\ publishedVersion' = [s \in PlanSteps(p) |-> NoVersion]
  /\ ciStatus' = [s \in PlanSteps(p) |-> "unset"]
  /\ abortSignal' = FALSE
  /\ pauseSignal' = FALSE
  /\ loop' = [pc |-> "top", i |-> 0, origin |-> "start"]
  /\ lastCall' = [op |-> "start", ret |-> TRUE]
  /\ UNCHANGED <<parallelLimit, graph, queue, ci, history, resumes>>

----------------------------------------------------------------------------
(* CascadeService.executeLoop *)

\* pendingSteps: the steps of layer i that are neither done nor skipped
pendingSteps(i) == SelectSeq(StepIds(i), LAMBDA s : stepStatus[s] \notin {"done", "skipped"})

\* a variant that gives every pending step a worker of its own
ConcurrencyPerStep(i, pending) == Len(pending)

\* the concurrency the layer's TaskQueue is built with
Concurrency(i, pending) ==
  IF plan.layers[i + 1].mode = "parallel" THEN Min(parallelLimit, Len(pending)) ELSE 1

\* a variant of the failure check that finds no failed step
HasFailedNever(i) == FALSE

\* failedSteps.length > 0
HasFailed(i) == \E s \in Range(StepIds(i)) : stepStatus[s] = "failed"

\* ciSteps: the done steps of layer i without a published version
ciSteps(i) ==
  SelectSeq(StepIds(i), LAMBDA s : stepStatus[s] = "done" /\ publishedVersion[s] = NoVersion)

\* the abort check at the head of each loop iteration
AbortAtBoundary == abortSignal

\* a variant of the loop that does not look at the pause signal
PauseIgnored == FALSE

\* the pause check at the head of each loop iteration
PauseAtBoundary == pauseSignal

\* a variant of queue.run that resolves as soon as no worker is ready to claim
LayerDrainedEarly == queue.ready = 0

\* await queue.run: Promise.all over the workers resolves when every worker has
\* returned, that is when no worker is ready and no step is awaited
LayerDrained == queue.ready = 0 /\ queue.active = {}

\* the head of the for loop, down to queue.run's creation of the workers
LoopTop ==
  /\ loop.pc = "top"
  /\ lastCall' = NoCall
  /\ UNCHANGED <<repos, plan, parallelLimit, graph, completedCount, failedCount, skippedCount,
                 stepStatus, publishedVersion, ciStatus, abortSignal, pauseSignal, ci,
                 resumes>>
  /\ IF loop.i >= Len(plan.layers)
       THEN /\ status' = "completed"
            /\ history' = Append(history, HistoryEntry("completed"))
            /\ loop' = [loop EXCEPT !.pc = "saving"]
            /\ UNCHANGED <<currentLayerIndex, queue>>
       ELSE IF AbortAtBoundary
         THEN /\ status' = "aborted"
              /\ history' = Append(history, HistoryEntry("aborted"))
              /\ loop' = [loop EXCEPT !.pc = "saving"]
              /\ UNCHANGED <<currentLayerIndex, queue>>
         ELSE IF PauseAtBoundary
           THEN /\ status' = "paused"
                /\ currentLayerIndex' = loop.i
                /\ loop' = NoLoop
                /\ UNCHANGED <<history, queue>>
           ELSE /\ currentLayerIndex' = loop.i
                /\ UNCHANGED <<status, history>>
                /\ LET pending == pendingSteps(loop.i)
                   IN IF Len(pending) = 0
                        THEN /\ loop' = [loop EXCEPT !.i = @ + 1]
                             /\ UNCHANGED queue
                        ELSE /\ loop' = [loop EXCEPT !.pc = "queue"]
                             /\ queue' = [items |-> pending, index |-> 0,
                                          ready |-> Min(Concurrency(loop.i, pending),
                                                        Len(pending)),
                                          active |-> {}, committed |-> {}]

\* after queue.run: pause on failed steps, else wait for CI or go to the next layer
AfterLayer ==
  /\ loop.pc = "queue"
  /\ LayerDrained
  /\ lastCall' = NoCall
  /\ queue' = NoQueue
  /\ UNCHANGED <<repos, plan, parallelLimit, graph, completedCount, failedCount, skippedCount,
                 stepStatus, publishedVersion, ciStatus, abortSignal, pauseSignal,
                 history, resumes>>
  /\ IF HasFailed(loop.i)
       THEN /\ status' = "paused"
            /\ currentLayerIndex' = loop.i
            /\ loop' = NoLoop
            /\ UNCHANGED ci
       ELSE /\ UNCHANGED <<status, currentLayerIndex>>
            /\ IF plan.waitForCi
                 THEN /\ ci' = [steps |-> ciSteps(loop.i), k |-> 1, attempt |-> 0]
                      /\ loop' = [loop EXCEPT !.pc = "ciNext"]
                 ELSE /\ loop' = [loop EXCEPT !.pc = "top", !.i = @ + 1]
                      /\ UNCHANGED ci

\* saveToHistory's await returns and executeLoop returns
SaveDone ==
  /\ loop.pc = "saving"
  /\ loop' = NoLoop
  /\ lastCall' = NoCall
  /\ UNCHANGED <<repos, plan, parallelLimit, graph, status, currentLayerIndex, completedCount,
                 failedCount, skippedCount, stepStatus, publishedVersion, ciStatus,
                 abortSignal, pauseSignal, queue, ci, history, resumes>>

----------------------------------------------------------------------------
(* TaskQueue.run's workers and CascadeService.executeStep *)

\* a variant of executeStep without the check for an empty diff
AfterStagingAlwaysCommits(diff, ok) == IF ok THEN "pushing" ELSE "failed"

\* the status after the commands of step 4 (git add, git status, git commit): ok
\* when none of them failed, diff when git status --porcelain printed a change
AfterStaging(diff, ok) ==
  IF ~ok THEN "failed"
  ELSE IF ~diff THEN "done"
  ELSE "pushing"

\* the statuses a step can have after the command awaited in status st has ended:
\* the next status on success, done from committing when git status shows no diff,
\* failed when the command failed
StepOutcomes(st) ==
  CASE st = "updating-deps" -> {"installing", "failed"}
    [] st = "installing" -> {IF plan.runTests THEN "testing" ELSE "committing", "failed"}
    [] st = "testing" -> {"committing", "failed"}
    [] st = "committing" -> {AfterStaging(diff, ok) : diff \in BOOLEAN, ok \in BOOLEAN}
    [] st = "pushing" -> {"done", "failed"}
    [] OTHER -> {}

\* a variant of the worker's callback without the abort check
ClaimOutcomeIgnoresAbort(step) ==
  IF ~HasRepo(repos, step) THEN "failed" ELSE "updating-deps"

\* what the worker's callback does with a claimed step: nothing once abort is
\* signalled, failed without a repo, else executeStep up to its first await
ClaimOutcome(step) ==
  IF abortSignal THEN "return"
  ELSE IF ~HasRepo(repos, step) THEN "failed"
  ELSE "updating-deps"

\* runNext: a worker whose continuation is pending claims the item at the cursor,
\* or returns when the cursor is past the last item
WorkerClaim ==
  /\ loop.pc = "queue"
  /\ queue.ready > 0
  /\ lastCall' = NoCall
  /\ UNCHANGED <<repos, plan, parallelLimit, graph, status, currentLayerIndex, completedCount,
                 skippedCount, publishedVersion, ciStatus, abortSignal, pauseSignal,
                 loop, ci, history, resumes>>
  /\ IF queue.index >= Len(queue.items)
       THEN /\ queue' = [queue EXCEPT !.ready = @ - 1]
            /\ UNCHANGED <<stepStatus, failedCount>>
       ELSE LET step == queue.items[queue.index + 1]
                out == ClaimOutcome(step)
            IN CASE out = "return" ->
                      /\ queue' = [queue EXCEPT !.index = @ + 1]
                      /\ UNCHANGED <<stepStatus, failedCount>>
                 [] out = "failed" ->
                      /\ queue' = [queue EXCEPT !.index = @ + 1]
                      /\ stepStatus' = [stepStatus EXCEPT ![step] = "failed"]
                      /\ failedCount' = failedCount + 1
                 [] OTHER ->
                      /\ queue' = [queue EXCEPT !.index = @ + 1, !.ready = @ - 1,
                                                !.active = @ \cup {step}]
                      /\ stepStatus' = [stepStatus EXCEPT ![step] = out]
                      /\ UNCHANGED failedCount

\* a variant in which a failed step ends the run: the items not yet claimed are
\* passed over
QueueAfterFailureStops(s, next) ==
  IF next = "failed"
    THEN [queue EXCEPT !.active = @ \ {s}, !.ready = @ + 1, !.index = Len(queue.items)]
    ELSE IF next = "done"
      THEN [queue EXCEPT !.active = @ \ {s}, !.ready = @ + 1]
      ELSE IF next = "pushing"
        THEN [queue EXCEPT !.committed = @ \cup {s}]
        ELSE queue

\* the layer's queue after step s moved on to next: executeStep returns at done
\* and at failed (its catch block), and the worker's continuation becomes pending
QueueAfter(s, next) ==
  IF next \in {"done", "failed"}
    THEN [queue EXCEPT !.active = @ \ {s}, !.ready = @ + 1]
    ELSE IF next = "pushing"
      THEN [queue EXCEPT !.committed = @ \cup {s}]
      ELSE queue

\* the command a step awaits ends: executeStep moves the step on, and at done or
\* failed the worker's continuation becomes pending
StepAdvance(s, next) ==
  /\ loop.pc = "queue"
  /\ queue.ready = 0
  /\ s \in queue.active
  /\ next \in StepOutcomes(stepStatus[s])
  /\ stepStatus' = [stepStatus EXCEPT ![s] = next]
  /\ completedCount' = IF next = "done" THEN completedCount + 1 ELSE completedCount
  /\ failedCount' = IF next = "failed" THEN failedCount + 1 ELSE failedCount
  /\ queue' = QueueAfter(s, next)
  /\ lastCall' = NoCall
  /\ UNCHANGED <<repos, plan, parallelLimit, graph, status, currentLayerIndex, skippedCount,
                 publishedVersion, ciStatus, abortSignal, pauseSignal, loop, ci,
                 history, resumes>>

----------------------------------------------------------------------------
(* CascadeService.waitForCi, called for each of ciSteps in turn *)

\* a variant of waitForCi that marks the step failed when the polling times out
ciFrameTimeoutFails ==
  /\ UNCHANGED <<repos, plan, parallelLimit, graph, status, currentLayerIndex,
                 completedCount, failedCount, skippedCount,
                 abortSignal, pauseSignal, queue, history, resumes>>
  /\ stepStatus' = IF loop.pc = "ciTop" /\ ci.attempt >= maxAttempts
                     THEN [stepStatus EXCEPT ![ci.steps[ci.k]] = "failed"]
                     ELSE stepStatus

ciFrame == UNCHANGED <<repos, plan, parallelLimit, graph, status, currentLayerIndex,
                       completedCount, failedCount, skippedCount, stepStatus,
                       abortSignal, pauseSignal, queue, history, resumes>>

\* the for loop over ciSteps: the next step's waitForCi up to its first await
CiNext ==
  /\ loop.pc = "ciNext"
  /\ lastCall' = NoCall
  /\ ciFrame
  /\ UNCHANGED publishedVersion
  /\ IF ci.k > Len(ci.steps)
       THEN /\ loop' = [loop EXCEPT !.pc = "top", !.i = @ + 1]
            /\ ci' = NoCi
            /\ UNCHANGED ciStatus
       ELSE /\ ciStatus' = [ciStatus EXCEPT ![ci.steps[ci.k]] = "pending"]
            /\ IF HasRepo(repos, ci.steps[ci.k])
                 THEN /\ loop' = [loop EXCEPT !.pc = "ciSlug"]
                      /\ UNCHANGED ci
                 ELSE /\ ci' = [ci EXCEPT !.k = @ + 1]
                      /\ UNCHANGED loop

\* getGitHubSlug returns: without a slug the CI status is skipped
CiSlug(found) ==
  /\ loop.pc = "ciSlug"
  /\ lastCall' = NoCall
  /\ ciFrame
  /\ UNCHANGED publishedVersion
  /\ IF found
       THEN /\ ciStatus' = [ciStatus EXCEPT ![ci.steps[ci.k]] = "pending"]
            /\ ci' = [ci EXCEPT !.attempt = 0]
            /\ loop' = [loop EXCEPT !.pc = "ciTop"]
       ELSE /\ ciStatus' = [ciStatus EXCEPT ![ci.steps[ci.k]] = "skipped"]
            /\ ci' = [ci EXCEPT !.k = @ + 1]
            /\ loop' = [loop EXCEPT !.pc = "ciNext"]

\* a variant of the loop condition that allows one attempt more
AttemptsExhaustedLate == ci.attempt >= maxAttempts + 1

\* the loop condition attempt < maxAttempts is false
AttemptsExhausted == ci.attempt >= maxAttempts

\* the head of the polling loop: the attempt budget, the abort check, then the sleep
CiTop ==
  /\ loop.pc = "ciTop"
  /\ lastCall' = NoCall
  /\ ciFrame
  /\ UNCHANGED publishedVersion
  /\ IF AttemptsExhausted
       THEN /\ ciStatus' = [ciStatus EXCEPT ![ci.steps[ci.k]] = "failure"]
            /\ ci' = [ci EXCEPT !.k = @ + 1]
            /\ loop' = [loop EXCEPT !.pc = "ciNext"]
       ELSE IF abortSignal
         THEN /\ ci' = [ci EXCEPT !.k = @ + 1]
              /\ loop' = [loop EXCEPT !.pc = "ciNext"]
              /\ UNCHANGED ciStatus
         ELSE /\ loop' = [loop EXCEPT !.pc = "ciSleep"]
              /\ UNCHANGED <<ci, ciStatus>>

\* the 15 s timer fires and checkCiStatus is called
CiSleep ==
  /\ loop.pc = "ciSleep"
  /\ lastCall' = NoCall
  /\ ciFrame
  /\ loop' = [loop EXCEPT !.pc = "ciQuery"]
  /\ UNCHANGED <<publishedVersion, ciStatus, ci>>

\* checkCiStatus returns result, or throws ("error")
CiQuery(result) ==
  /\ loop.pc = "ciQuery"
  /\ lastCall' = NoCall
  /\ ciFrame
  /\ UNCHANGED publishedVersion
  /\ CASE result = "error" ->
            /\ ciStatus' = [ciStatus EXCEPT ![ci.steps[ci.k]] = "skipped"]
            /\ ci' = [ci EXCEPT !.k = @ + 1]
            /\ loop' = [loop EXCEPT !.pc = "ciNext"]
       [] result = "success" ->
            /\ ciStatus' = [ciStatus EXCEPT ![ci.steps[ci.k]] = result]
            /\ loop' = [loop EXCEPT !.pc = "ciResolve"]
            /\ UNCHANGED ci
       [] result = "failure" ->
            /\ ciStatus' = [ciStatus EXCEPT ![ci.steps[ci.k]] = result]
            /\ ci' = [ci EXCEPT !.k = @ + 1]
            /\ loop' = [loop EXCEPT !.pc = "ciNext"]
       [] OTHER ->
            /\ ciStatus' = [ciStatus EXCEPT ![ci.steps[ci.k]] = result]
            /\ ci' = [ci EXCEPT !.attempt = @ + 1]
            /\ loop' = [loop EXCEPT !.pc = "ciTop"]

\* resolvePublishedVersion returns the registry's version, or null (NoVersion)
CiResolve(published) ==
  /\ loop.pc = "ciResolve"
  /\ lastCall' = NoCall
  /\ ciFrame
  /\ publishedVersion' = [publishedVersion EXCEPT ![ci.steps[ci.k]] =
                          IF published THEN RegistryVersion(ci.steps[ci.k]) ELSE NoVersion]
  /\ ci' = [ci EXCEPT !.k = @ + 1]
  /\ loop' = [loop EXCEPT !.pc = "ciNext"]
  /\ UNCHANGED ciStatus

----------------------------------------------------------------------------
(* Control operations.  Each is one synchronous call; lastCall records the  *)
(* operation and the boolean it returned.                                   *)

\* the id a caller may pass that names no step of the plan
UnknownRepo == 0

Called(op, ret) == lastCall' = [op |-> op, ret |-> ret]

\* a variant of abort's validity test that also accepts an aborted execution
AbortValidAfterAbort == status \in {"running", "paused", "aborted"}

\* abort is valid on a running or paused execution
AbortValid == status \in {"running", "paused"}

abort ==
  /\ Quiescent
  /\ UNCHANGED <<repos, plan, parallelLimit, graph, currentLayerIndex, completedCount,
                 failedCount, skippedCount, stepStatus, publishedVersion, ciStatus,
                 pauseSignal, loop, queue, ci, resumes>>
  /\ IF ~AbortValid
       THEN /\ Called("abort", FALSE)
            /\ UNCHANGED <<abortSignal, status, history>>
       ELSE /\ abortSignal' = TRUE
            /\ Called("abort", TRUE)
            /\ IF status = "paused"
                 THEN /\ status' = "aborted"
                      /\ history' = Append(history, HistoryEntry("aborted"))
                 ELSE UNCHANGED <<status, history>>

\* a variant of pause's validity test that also accepts a paused execution
PauseValidWhenPaused == status \in {"running", "paused"}

\* pause is valid on a running execution
PauseValid == status = "running"

pause ==
  /\ Quiescent
  /\ UNCHANGED <<repos, plan, parallelLimit, graph, status, currentLayerIndex, completedCount,
                 failedCount, skippedCount, stepStatus, publishedVersion, ciStatus,
                 abortSignal, loop, queue, ci, history, resumes>>
  /\ IF ~PauseValid
       THEN /\ Called("pause", FALSE)
            /\ UNCHANGED pauseSignal
       ELSE /\ pauseSignal' = TRUE
            /\ Called("pause", TRUE)

\* a variant of resume's validity test that also accepts a running execution
ResumeValidWhenRunning == status \in {"paused", "running"}

\* resume is valid on a paused execution
ResumeValid == status = "paused"

\* a variant of resume that continues with the layer after the one it paused at
ResumeIndexNextLayer == currentLayerIndex + 1

\* the layer index executeLoop starts from
ResumeIndex == currentLayerIndex

resume ==
  /\ Quiescent
  /\ ResumeValid => resumes < MaxResumes
  /\ UNCHANGED <<repos, plan, parallelLimit, graph, currentLayerIndex, completedCount,
                 failedCount, skippedCount, stepStatus, publishedVersion, ciStatus,
                 abortSignal, queue, ci, history>>
  /\ IF ~ResumeValid
       THEN /\ Called("resume", FALSE)
            /\ UNCHANGED <<pauseSignal, status, loop, resumes>>
       ELSE /\ pauseSignal' = FALSE
            /\ status' = "running"
            /\ loop' = [pc |-> "top", i |-> ResumeIndex, origin |-> "resume"]
            /\ resumes' = resumes + 1
            /\ Called("resume", TRUE)

\* skipStep finds a step: the execution exists and a step of that id is failed
SkipFinds(repoId) ==
  /\ status # "none"
  /\ repoId \in PlanSteps(plan)
  /\ stepStatus[repoId] = "failed"

\* a variant of skipStep that forgets to decrement failedCount
SkipTalliesNoDecrement == <<skippedCount + 1, failedCount>>

\* the tallies <<skippedCount, failedCount>> after a skip
SkipTallies == <<skippedCount + 1, failedCount - 1>>

skipStep(repoId) ==
  /\ Quiescent
  /\ UNCHANGED <<repos, plan, parallelLimit, graph, status, currentLayerIndex, completedCount,
                 publishedVersion, ciStatus, abortSignal, pauseSignal, loop, queue, ci,
                 history, resumes>>
  /\ IF SkipFinds(repoId)
       THEN /\ stepStatus' = [stepStatus EXCEPT ![repoId] = "skipped"]
            /\ skippedCount' = SkipTallies[1]
            /\ failedCount' = SkipTallies[2]
            /\ Called("skipStep", TRUE)
       ELSE /\ Called("skipStep", FALSE)
            /\ UNCHANGED <<stepStatus, skippedCount, failedCount>>

setPublishedVersion(repoId, version) ==
  /\ Quiescent
  /\ UNCHANGED <<repos, plan, parallelLimit, graph, status, currentLayerIndex, completedCount,
                 failedCount, skippedCount, stepStatus, ciStatus, abortSignal,
                 pauseSignal, loop, queue, ci, history, resumes>>
  /\ IF status # "none" /\ repoId \in PlanSteps(plan)
       THEN /\ publishedVersion' = [publishedVersion EXCEPT ![repoId] = version]
            /\ Called("setPublishedVersion", TRUE)
       ELSE /\ Called("setPublishedVersion", FALSE)
            /\ UNCHANGED publishedVersion

----------------------------------------------------------------------------
(* An unexpected exception in executeLoop: the promise rejects and the      *)
(* catch handler of the caller that started the loop runs.                  *)

\* the status after the caller's catch handler ran
StatusAfterThrow == IF loop.origin = "start" THEN "failed" ELSE status

EngineError ==
  /\ loop.pc \in {"top", "ciNext"}
  /\ loop' = [loop EXCEPT !.pc = "thrown"]
  /\ status' = StatusAfterThrow
  /\ queue' = NoQueue
  /\ ci' = NoCi
  /\ lastCall' = NoCall
  /\ UNCHANGED <<repos, plan, parallelLimit, graph, currentLayerIndex, completedCount,
                 failedCount, skippedCount, stepStatus, publishedVersion, ciStatus,
                 abortSignal, pauseSignal, history, resumes>>

----------------------------------------------------------------------------
(* Inputs *)

Options == [waitForCi : BOOLEAN, runTests : BOOLEAN]

\* dependency relations of the executed cascades (repo 1 is the source): one
\* dependent; a chain of three; two dependents of the source and one of both
ExecGraphs ==
  { [ids |-> <<1, 2>>, deps |-> (1 :> {} @@ 2 :> {1})],
    [ids |-> <<1, 2, 3, 4>>, deps |-> (1 :> {} @@ 2 :> {1} @@ 3 :> {2} @@ 4 :> {3})],
    [ids |-> <<1, 2, 3, 4>>, deps |-> (1 :> {} @@ 2 :> {1} @@ 3 :> {1} @@ 4 :> {2, 3})] }

\* the dependency relations executed with waitForCi set: one dependent; a chain of two
CiGraphs ==
  { [ids |-> <<1, 2>>, deps |-> (1 :> {} @@ 2 :> {1})],
    [ids |-> <<1, 2, 3>>, deps |-> (1 :> {} @@ 2 :> {1} @@ 3 :> {2})] }

\* what the start procedure hands to startExecution: the plan createPlan builds for
\* source 1 and the repo list
StartInput(g, o) ==
  [plan |-> createPlan(1, MakeRepos(g.ids, g.deps), NoVersion, o),
   repos |-> MakeRepos(g.ids, g.deps)]

\* a plan for two dependents of the source, started with a repo list that lacks
\* the second of them
MissingRepoInput ==
  LET rs == MakeRepos(<<1, 2, 3>>, (1 :> {} @@ 2 :> {1} @@ 3 :> {1}))
  IN [plan |-> createPlan(1, rs, NoVersion, [waitForCi |-> FALSE, runTests |-> FALSE]),
      repos |-> SubSeq(rs, 1, 2)]

ExecInputs ==
  {StartInput(g, o) : g \in ExecGraphs, o \in {x \in Options : ~x.waitForCi}}
  \cup {StartInput(g, o) : g \in CiGraphs, o \in {x \in Options : x.waitForCi}}
  \cup {MissingRepoInput}

\* every dependency relation over 1..NumNodes without self-dependencies
Nodes == 1..NumNodes
Graphs == {d \in [Nodes -> SUBSET Nodes] : \A n \in Nodes : n \notin d[n]}

----------------------------------------------------------------------------
(* Specifications *)

ExecIdle ==
  /\ status = "none"
  /\ currentLayerIndex = 0
  /\ completedCount = 0
  /\ failedCount = 0
  /\ skippedCount = 0
  /\ stepStatus = <<>>
  /\ publishedVersion = <<>>
  /\ ciStatus = <<>>
  /\ abortSignal = FALSE
  /\ pauseSignal = FALSE
  /\ loop = NoLoop
  /\ queue = NoQueue
  /\ ci = NoCi
  /\ history = <<>>
  /\ lastCall = NoCall
  /\ resumes = 0

\* a CascadeService constructed with its parallel limit, no execution started
Init ==
  /\ repos = <<>>
  /\ plan = NoPlan
  /\ parallelLimit \in 1..MaxParallel
  /\ graph = NoGraph
  /\ ExecIdle

Start == \E x \in ExecInputs : StartExecution(x.plan, x.repos)

Step == \E s \in DOMAIN stepStatus, next \in InProgress \cup {"done", "failed"} :
          StepAdvance(s, next)

\* what a CI status query can answer: the run is over by the MaxCiPolls-th query
CiResults ==
  IF ci.attempt + 1 < MaxCiPolls
    THEN {"pending", "running", "success", "failure", "error"}
    ELSE {"success", "failure", "error"}

CiWait ==
  \/ CiNext
  \/ \E found \in BOOLEAN : CiSlug(found)
  \/ CiTop
  \/ CiSleep
  \/ \E result \in CiResults : CiQuery(result)
  \/ \E published \in BOOLEAN : CiResolve(published)

Engine == LoopTop \/ WorkerClaim \/ Step \/ AfterLayer \/ CiWait \/ SaveDone

Control ==
  \/ abort
  \/ pause
  \/ resume
  \/ \E r \in DOMAIN stepStatus \cup {UnknownRepo} : skipStep(r)

Next == Start \/ Engine \/ Control

Spec == Init /\ [][Next]_vars

\* every command, timer and query the loop awaits ends, and the event loop runs
\* every continuation that is ready
FairSpec == Spec /\ WF_vars(Engine)

\* executions in which executeLoop may raise an unexpected exception
NextErr == Next \/ EngineError

SpecErr == Init /\ [][NextErr]_vars

\* the same executions when every awaited operation ends and every ready
\* continuation runs; an exception may be raised but need not be
FairSpecErr == SpecErr /\ WF_vars(Engine)

\* planning: a resolver over a repo list, and the plan procedure called on it
InitPlan ==
  /\ repos \in {MakeRepos(SortedSeq(Nodes), d) : d \in Graphs}
  /\ plan = NoPlan
  /\ parallelLimit = 1
  /\ graph = NoGraph
  /\ ExecIdle

\* a variant that asks the registry whether or not the source repo is known
RegistryCallsAlways(rs, sourceRepoId) == 1

\* the calls of resolvePublishedVersion createPlan makes: one when repoMap holds
\* the source, none otherwise
RegistryCalls(rs, sourceRepoId) == IF HasRepo(rs, sourceRepoId) THEN 1 ELSE 0

\* lastCall holds the call, its source id, the registry calls it made and what the
\* registry holds for the source package
CreatePlan(sourceRepoId, published, options) ==
  /\ plan' = createPlan(sourceRepoId, repos, published, options)
  /\ lastCall' = [op |-> "createPlan", arg |-> sourceRepoId,
                  registryCalls |-> RegistryCalls(repos, sourceRepoId),
                  published |-> published]
  /\ UNCHANGED <<repos, parallelLimit, graph, status, currentLayerIndex, completedCount,
                 failedCount, skippedCount, stepStatus, publishedVersion, ciStatus,
                 abortSignal, pauseSignal, loop, queue, ci, history, resumes>>

NextPlan ==
  \E sourceRepoId \in Nodes \cup {UnknownRepo}, registered \in BOOLEAN, o \in Options :
    CreatePlan(sourceRepoId,
               IF registered THEN RegistryVersion(sourceRepoId) ELSE NoVersion, o)

PlanSpec == InitPlan /\ [][NextPlan]_vars

\* executions with waitForCi set of a plan whose first layer holds two steps and
\* is followed by a second layer
CiLayerInput ==
  StartInput([ids |-> <<1, 2, 3, 4>>,
              deps |-> (1 :> {} @@ 2 :> {1} @@ 3 :> {1} @@ 4 :> {2, 3})],
             [waitForCi |-> TRUE, runTests |-> FALSE])

StartCi == StartExecution(CiLayerInput.plan, CiLayerInput.repos)

NextCi == StartCi \/ Engine \/ Control

CiSpec == Init /\ [][NextCi]_vars

\* executions of one step with waitForCi set in which the CI run may stay pending
\* or running for any number of queries, so that the polling can time out
CiPollInput ==
  StartInput([ids |-> <<1, 2>>, deps |-> (1 :> {} @@ 2 :> {1})],
             [waitForCi |-> TRUE, runTests |-> FALSE])

StartCiPoll == StartExecution(CiPollInput.plan, CiPollInput.repos)

CiWaitAny ==
  \/ CiNext
  \/ \E found \in BOOLEAN : CiSlug(found)
  \/ CiTop
  \/ CiSleep
  \/ \E result \in {"pending", "running", "success", "failure", "error"} : CiQuery(result)
  \/ \E published \in BOOLEAN : CiResolve(published)

NextCiPoll ==
  StartCiPoll \/ LoopTop \/ WorkerClaim \/ Step \/ AfterLayer \/ CiWaitAny \/ SaveDone
    \/ Control

CiPollSpec == Init /\ [][NextCiPoll]_vars

\* every command, timer and query of such an execution ends
FairCiPollSpec ==
  CiPollSpec /\ WF_vars(LoopTop \/ WorkerClaim \/ Step \/ AfterLayer \/ CiWaitAny \/ SaveDone)

----------------------------------------------------------------------------
(* DependencyResolver.buildGraph and calculateLayers *)

RECURSIVE Flatten(_)
\* the concatenation of a sequence of sequences
Flatten(ss) == IF ss = <<>> THEN <<>> ELSE Head(ss) \o Flatten(Tail(ss))

\* depIds: repo.dependencies.map((d) => d.repoId).filter(Boolean)
ResolvedDepIds(r) == [k \in DOMAIN r.dependencies |-> r.dependencies[k].repoId]

\* adjList.get(id) || []: the repos that list id among their depIds, once for each
\* such entry, in the order of the repo list
AdjList(rs, id) ==
  Flatten([k \in DOMAIN rs |->
             [j \in DOMAIN SelectSeq(ResolvedDepIds(rs[k]), LAMBDA d : d = id) |-> rs[k].id]])

\* a variant that releases a dependent as soon as one of its dependencies is placed
RemainingZero(count) == 0

\* (depCount.get(dependent) || 1) - 1
Remaining(count) == (IF count = 0 THEN 1 ELSE count) - 1

RECURSIVE Release(_, _, _)
\* the two inner for loops of calculateLayers over the dependents of the queue's
\* nodes: each is counted down and pushed to nextQueue when nothing remains
Release(dependents, depCount, nextQueue) ==
  IF dependents = <<>> THEN [depCount |-> depCount, nextQueue |-> nextQueue]
  ELSE LET dependent == Head(dependents)
           remaining == Remaining(depCount[dependent])
       IN Release(Tail(dependents),
                  [depCount EXCEPT ![dependent] = remaining],
                  IF remaining = 0 THEN Append(nextQueue, dependent) ELSE nextQueue)

RECURSIVE LayerLoop(_, _, _, _)
\* the while loop of calculateLayers over its local queue (queue0); layers holds
\* layer l at position l + 1
LayerLoop(rs, queue0, depCount, layers) ==
  IF queue0 = <<>> THEN layers
  ELSE LET r == Release(Flatten([k \in DOMAIN queue0 |-> AdjList(rs, queue0[k])]),
                        depCount, <<>>)
       IN LayerLoop(rs, r.nextQueue, r.depCount, Append(layers, queue0))

\* calculateLayers: the layers as a function from the layer index, from 0
calculateLayers(rs) ==
  LET ids == [k \in DOMAIN rs |-> rs[k].id]
      depCount == [id \in Range(ids) |-> Len(ResolvedDepIds(GetRepo(rs, id)))]
      queue0 == SelectSeq(ids, LAMBDA id : depCount[id] = 0)
      layers == LayerLoop(rs, queue0, depCount, <<>>)
  IN [l \in 0..(Len(layers) - 1) |-> layers[l + 1]]

\* buildGraph: the repos, an edge for each resolved dependency, and the layers
buildGraph(rs) ==
  [nodes |-> rs,
   edges |-> Flatten([k \in DOMAIN rs |->
                        [j \in DOMAIN rs[k].dependencies |->
                           [from |-> rs[k].id,
                            to |-> rs[k].dependencies[j].repoId,
                            versionSpec |-> rs[k].dependencies[j].versionSpec]]]),
   layers |-> calculateLayers(rs)]

BuildGraph ==
  /\ graph' = buildGraph(repos)
  /\ UNCHANGED <<repos, plan, parallelLimit, status, currentLayerIndex, completedCount,
                 failedCount, skippedCount, stepStatus, publishedVersion, ciStatus,
                 abortSignal, pauseSignal, loop, queue, ci, history, lastCall, resumes>>

NextGraph == BuildGraph \/ NextPlan

\* a resolver over a repo list, and the graph and plan procedures called on it
GraphSpec == InitPlan /\ [][NextGraph]_vars

----------------------------------------------------------------------------
(* TaskQueue.run on its own: a queue constructed with a concurrency, run over a *)
(* list of items with a worker fn that may throw.  The run is held in the       *)
(* variable queue; the cascade's variables stay as constructed.                 *)

\* the longest item list, and the largest item
MaxItems == 3

NoResult == [item |-> 0, kind |-> "none", value |-> 0]

\* the worker of the tests: async (item) => item * 2
fn(item) == item * 2

\* a variant of run that starts one worker more than the limit
WorkerCountOneMore(items, concurrency) == Min(concurrency, Len(items)) + 1

\* a variant of run that starts a worker for every item
WorkerCountPerItem(items, concurrency) == Len(items)

\* the number of runNext workers run creates
WorkerCount(items, concurrency) == Min(concurrency, Len(items))

\* a variant of runNext that appends to results in the order of completion
ResultSlotAppend(q, currentIndex) ==
  Cardinality({j \in DOMAIN q.results : q.results[j].kind # "none"}) + 1

\* results[currentIndex] = ...: the place of an item's entry (1-based)
ResultSlot(q, currentIndex) == currentIndex

\* a variant of runNext without try/catch: a throw of fn rejects the worker
WorkerAfterUncaught(throws) == IF throws THEN "reject" ELSE "continue"

\* what a worker does when fn has settled: the catch block records a throw and
\* the while loop continues
WorkerAfter(throws) == "continue"

\* new TaskQueue(concurrency)
NewTaskQueue(concurrency) ==
  [concurrency |-> concurrency, items |-> <<>>, index |-> 0, ready |-> 0, active |-> {},
   results |-> <<>>, order |-> <<>>, state |-> "idle"]

queueFrame == UNCHANGED <<repos, plan, parallelLimit, graph, status, currentLayerIndex,
                          completedCount, failedCount, skippedCount, stepStatus,
                          publishedVersion, ciStatus, abortSignal, pauseSignal, loop, ci,
                          history, lastCall, resumes>>

\* run(items, fn) up to the creation of the workers: each worker's first claim is
\* pending; order lists the claimed positions in the order fn was called
run(items) ==
  /\ queue.state = "idle"
  /\ queue' = [queue EXCEPT !.items = items,
                            !.index = 0,
                            !.ready = WorkerCount(items, queue.concurrency),
                            !.results = [k \in DOMAIN items |-> NoResult],
                            !.state = "running"]
  /\ queueFrame

\* runNext: a worker at the head of its while loop claims the item at index and
\* calls fn on it, or returns when index is past the last item
runNext ==
  /\ queue.state \in {"running", "rejected"}
  /\ queue.ready > 0
  /\ queue' = IF queue.index < Len(queue.items)
                THEN [queue EXCEPT !.index = @ + 1,
                                   !.ready = @ - 1,
                                   !.active = @ \cup {queue.index + 1},
                                   !.order = Append(@, queue.index + 1)]
                ELSE [queue EXCEPT !.ready = @ - 1]
  /\ queueFrame

\* the promise of fn(items[currentIndex]) settles: the worker records the result
\* or the error and goes back to the head of its loop, which it runs in the same
\* continuation, so that no other worker's claim is pending at that moment
Settle(currentIndex, throws) ==
  /\ queue.state \in {"running", "rejected"}
  /\ queue.ready = 0
  /\ currentIndex \in queue.active
  /\ queue' = IF WorkerAfter(throws) = "continue"
                THEN [queue EXCEPT
                        !.results[ResultSlot(queue, currentIndex)] =
                           [item |-> queue.items[currentIndex],
                            kind |-> IF throws THEN "error" ELSE "result",
                            value |-> IF throws THEN 0 ELSE fn(queue.items[currentIndex])],
                        !.active = @ \ {currentIndex},
                        !.ready = @ + 1]
                ELSE [queue EXCEPT !.active = @ \ {currentIndex}, !.state = "rejected"]
  /\ queueFrame

\* await Promise.all(workers) resolves and run returns results
RunReturns ==
  /\ queue.state = "running"
  /\ queue.ready = 0
  /\ queue.active = {}
  /\ queue' = [queue EXCEPT !.state = "resolved"]
  /\ queueFrame

ItemLists == UNION {[1..n -> 1..MaxItems] : n \in 0..MaxItems}

\* a TaskQueue constructed with a concurrency from 1 to above every item count
InitQueue ==
  /\ repos = <<>>
  /\ plan = NoPlan
  /\ parallelLimit = 1
  /\ graph = NoGraph
  /\ status = "none"
  /\ currentLayerIndex = 0
  /\ completedCount = 0
  /\ failedCount = 0
  /\ skippedCount = 0
  /\ stepStatus = <<>>
  /\ publishedVersion = <<>>
  /\ ciStatus = <<>>
  /\ abortSignal = FALSE
  /\ pauseSignal = FALSE
  /\ loop = NoLoop
  /\ ci = NoCi
  /\ history = <<>>
  /\ lastCall = NoCall
  /\ resumes = 0
  /\ queue \in {NewTaskQueue(c) : c \in 1..(MaxItems + 1)}

Run == \E items \in ItemLists : run(items)

SettleAny == \E k \in 1..MaxItems, throws \in BOOLEAN : Settle(k, throws)

NextQueue == Run \/ runNext \/ SettleAny \/ RunReturns

QueueSpec == InitQueue /\ [][NextQueue]_vars

----------------------------------------------------------------------------
(* DependencyResolver queries: topologicalSort, getAffected, getDependencies *)
(* and getDependents called on a resolver constructed over a repo list.     *)

\* a variant that counts a dependent down to zero at once
InDegreeAfterZero(count) == 0

\* (inDegree.get(dependent) || 1) - 1
InDegreeAfter(count) == (IF count = 0 THEN 1 ELSE count) - 1

RECURSIVE Enqueue(_, _, _)
\* the for loop of topologicalSort over the dependents of the node shifted off
\* the queue: each is counted down and pushed when nothing remains
Enqueue(dependents, inDegree, queue0) ==
  IF dependents = <<>> THEN [inDegree |-> inDegree, queue |-> queue0]
  ELSE LET dependent == Head(dependents)
           remaining == InDegreeAfter(inDegree[dependent])
       IN Enqueue(Tail(dependents),
                  [inDegree EXCEPT ![dependent] = remaining],
                  IF remaining = 0 THEN Append(queue0, dependent) ELSE queue0)

RECURSIVE SortLoop(_, _, _, _)
\* the while loop of topologicalSort over its local queue (queue0)
SortLoop(rs, queue0, inDegree, sorted) ==
  IF queue0 = <<>> THEN sorted
  ELSE LET nodeId == Head(queue0)
           r == Enqueue(AdjList(rs, nodeId), inDegree, Tail(queue0))
       IN SortLoop(rs, r.queue, r.inDegree, Append(sorted, nodeId))

\* a variant that appends the repos the loop never reached to the sorted list
topologicalSortWithRest(rs) ==
  LET ids == [k \in DOMAIN rs |-> rs[k].id]
      inDegree == [id \in Range(ids) |-> Len(ResolvedDepIds(GetRepo(rs, id)))]
      queue0 == SelectSeq(ids, LAMBDA id : inDegree[id] = 0)
      sorted == SortLoop(rs, queue0, inDegree, <<>>)
  IN sorted \o SelectSeq(ids, LAMBDA id : id \notin Range(sorted))

topologicalSort(rs) ==
  LET ids == [k \in DOMAIN rs |-> rs[k].id]
      inDegree == [id \in Range(ids) |-> Len(ResolvedDepIds(GetRepo(rs, id)))]
      queue0 == SelectSeq(ids, LAMBDA id : inDegree[id] = 0)
  IN SortLoop(rs, queue0, inDegree, <<>>)

\* getDependencies: [] for an id the map does not hold
getDependencies(rs, repoId) ==
  IF ~HasRepo(rs, repoId) THEN <<>> ELSE ResolvedDepIds(GetRepo(rs, repoId))

\* getDependents: [] for an id the map does not hold
getDependents(rs, repoId) ==
  IF ~HasRepo(rs, repoId) THEN <<>> ELSE GetRepo(rs, repoId).dependents

\* a query leaves the resolver and everything else as it is; lastCall holds the
\* query, its argument and what it returned
Queried(op, arg, ret) ==
  /\ lastCall' = [op |-> op, arg |-> arg, ret |-> ret]
  /\ UNCHANGED <<repos, plan, parallelLimit, graph, status, currentLayerIndex,
                 completedCount, failedCount, skippedCount, stepStatus, publishedVersion,
                 ciStatus, abortSignal, pauseSignal, loop, queue, ci, history, resumes>>

TopologicalSort == Queried("topologicalSort", UnknownRepo, topologicalSort(repos))

GetAffected(repoId) == Queried("getAffected", repoId, getAffected(repos, repoId))

GetDependencies(repoId) == Queried("getDependencies", repoId, getDependencies(repos, repoId))

GetDependents(repoId) == Queried("getDependents", repoId, getDependents(repos, repoId))

\* the orders in which the ids of S can be listed
Orders(S) == {p \in [1..Cardinality(S) -> S] : \A i, j \in DOMAIN p : p[i] = p[j] => i = j}

\* a <- b, a <- c, b <- d, c <- d with a, b, c, d = 1, 2, 3, 4
DiamondDeps == (1 :> {} @@ 2 :> {1} @@ 3 :> {1} @@ 4 :> {2, 3})

\* lib-a, lib-b (depends on lib-a), lib-c (depends on lib-a and lib-b) = 1, 2, 3
ChainDeps == (1 :> {} @@ 2 :> {1} @@ 3 :> {1, 2})

\* the repo lists a resolver is constructed over: every dependency relation over
\* the nodes in every list order, and the diamond in every list order
ResolverInputs ==
  {MakeRepos(p, d) : p \in Orders(Nodes), d \in Graphs}
  \cup {MakeRepos(p, DiamondDeps) : p \in Orders(DOMAIN DiamondDeps)}

InitResolver ==
  /\ repos \in ResolverInputs
  /\ plan = NoPlan
  /\ parallelLimit = 1
  /\ graph = NoGraph
  /\ ExecIdle

\* the ids a caller asks about: those of the list and one the list does not hold
QueryIds == {repos[k].id : k \in DOMAIN repos} \cup {UnknownRepo}

\* the plan procedure called without options
NoOptions == [waitForCi |-> FALSE, runTests |-> FALSE]

NextResolver ==
  \/ \E sourceRepoId \in QueryIds, registered \in BOOLEAN :
       CreatePlan(sourceRepoId,
                  IF registered THEN RegistryVersion(sourceRepoId) ELSE NoVersion,
                  NoOptions)
  \/ BuildGraph
  \/ TopologicalSort
  \/ \E repoId \in QueryIds : GetAffected(repoId)
  \/ \E repoId \in QueryIds : GetDependencies(repoId)
  \/ \E repoId \in QueryIds : GetDependents(repoId)

ResolverSpec == InitResolver /\ [][NextResolver]_vars

----------------------------------------------------------------------------
(* Executions on which every control operation of the service is called,    *)
(* setPublishedVersion included, and in which executeLoop may raise.         *)

\* the executions started: a chain of two steps in two layers, two steps in one
\* parallel layer of which the second has no repo in the list, and one step whose
\* CI run is waited for
ControlInputs ==
  {StartInput([ids |-> <<1, 2, 3>>, deps |-> (1 :> {} @@ 2 :> {1} @@ 3 :> {2})],
              [waitForCi |-> FALSE, runTests |-> FALSE]),
   MissingRepoInput,
   StartInput([ids |-> <<1, 2>>, deps |-> (1 :> {} @@ 2 :> {1})],
              [waitForCi |-> TRUE, runTests |-> FALSE])}

StartControl == \E x \in ControlInputs : StartExecution(x.plan, x.repos)

SetVersion ==
  \E r \in DOMAIN stepStatus \cup {UnknownRepo} : setPublishedVersion(r, RegistryVersion(r))

NextControl == StartControl \/ Engine \/ Control \/ SetVersion \/ EngineError

ControlSpec == Init /\ [][NextControl]_vars

----------------------------------------------------------------------------
(* Properties *)

Terminal == {"done", "failed", "skipped"}

\* the layerIndex of the layer of plan p that holds the step of repo r
PlanLayerIndex(p, r) ==
  LET l == CHOOSE l \in DOMAIN p.layers :
             \E k \in DOMAIN p.layers[l].steps : p.layers[l].steps[k].repoId = r
  IN p.layers[l].layerIndex

\* the dependency relation of the repo list rs has no cycle: its repos can be
\* numbered so that every repo's number is above those of its dependencies
Acyclic(rs) ==
  \E f \in [{rs[k].id : k \in DOMAIN rs} -> 1..Len(rs)] :
    \A k \in DOMAIN rs : \A d \in DepIds(rs[k]) :
      HasRepo(rs, d) => f[d] < f[rs[k].id]

\* C1: in every plan createPlan builds over an acyclic repo list whose dependents
\* are the inverse of the dependencies, a step whose repo depends on the repo of
\* another step lies in a layer of strictly greater layerIndex.
C1_DependencyBeforeDependent ==
  Acyclic(repos) =>
    \A x \in PlanSteps(plan), y \in PlanSteps(plan) :
      (HasRepo(repos, x) /\ y \in DepIds(GetRepo(repos, x)))
        => PlanLayerIndex(plan, x) > PlanLayerIndex(plan, y)

\* C2: no step leaves pending while a step of an earlier layer is in a
\* non-terminal state, whatever the interleaving of completions and control calls.
C2_LayersInSequence ==
  [][\A s \in DOMAIN stepStatus :
       (s \in DOMAIN stepStatus' /\ stepStatus[s] = "pending"
          /\ stepStatus'[s] # "pending")
         => \A t \in DOMAIN stepStatus :
              LayerOf(t) < LayerOf(s) => stepStatus[t] \in Terminal]_vars

\* a step of the second layer or later is being executed in a resumed run
C2_Witness ==
  /\ resumes > 0
  /\ \E s \in DOMAIN stepStatus : LayerOf(s) >= 1 /\ stepStatus[s] \in InProgress

\* C3: when the queue of layer i has drained with a failed step in the layer, the
\* status becomes paused with currentLayerIndex = i and the loop returns; while
\* the execution is paused no step changes other than by a skip of a failed step;
\* and the status never becomes failed, and aborted only with the abort signal set.
C3_FailurePauses ==
  /\ [][(loop.pc = "queue" /\ loop'.pc # "queue"
           /\ \E s \in Range(StepIds(loop.i)) : stepStatus[s] = "failed")
          => (status' = "paused" /\ currentLayerIndex' = loop.i /\ loop' = NoLoop)]_vars
  /\ [][status = "paused"
          => \A s \in DOMAIN stepStatus :
               stepStatus'[s] # stepStatus[s]
                 => (stepStatus[s] = "failed" /\ stepStatus'[s] = "skipped")]_vars
  /\ [][status' # status
          => (status' # "failed" /\ (status' = "aborted" => abortSignal'))]_vars

\* the second layer ended with a failed step: the execution is paused at it and
\* the steps of the third layer are pending
C3_Witness ==
  /\ status = "paused"
  /\ currentLayerIndex = 1
  /\ Len(plan.layers) > 2
  /\ \E s \in Range(StepIds(1)) : stepStatus[s] = "failed"
  /\ \A s \in Range(StepIds(2)) : stepStatus[s] = "pending"

\* C4: once abort was accepted the execution never completes, and an abort
\* accepted on a running execution leads to the status aborted.
C4_AbortNeverCompletes ==
  /\ [](abortSignal => status # "completed")
  /\ ((abortSignal /\ status = "running") ~> (status = "aborted"))

\* C5: abort on a paused execution returns true with the status aborted and one
\* entry saved to the history; on an aborted execution the status and the history
\* no longer change and resume, pause and abort return false.
C5_AbortPaused ==
  /\ [][(status = "paused" /\ lastCall'.op = "abort")
          => (/\ lastCall'.ret
              /\ status' = "aborted"
              /\ history' = Append(history, HistoryEntry("aborted"))
              /\ Len(history') = 1)]_vars
  /\ [][status = "aborted"
          => (/\ status' = "aborted"
              /\ history' = history
              /\ lastCall'.op \in {"resume", "pause", "abort"} => ~lastCall'.ret)]_vars

\* abort was just accepted on a paused execution: it is aborted and saved once
C5_Witness ==
  /\ status = "aborted"
  /\ lastCall = [op |-> "abort", ret |-> TRUE]
  /\ Len(history) = 1
  /\ history[1].status = "aborted"

\* pause was accepted while layer i is executing and a later layer exists
PauseRequested(i) ==
  /\ status = "running"
  /\ pauseSignal
  /\ currentLayerIndex = i
  /\ i + 1 < Len(plan.layers)

\* the pause is honoured at the boundary after layer i: every step of the layer
\* is done, its CI waits are over, and no step of layer i + 1 has started
PausedAfter(i) ==
  /\ i + 1 < Len(plan.layers)
  /\ status = "paused"
  /\ currentLayerIndex = i + 1
  /\ loop = NoLoop
  /\ queue = NoQueue
  /\ ci = NoCi
  /\ \A s \in Range(StepIds(i)) : stepStatus[s] = "done"
  /\ plan.waitForCi
       => \A s \in Range(StepIds(i)) : ciStatus[s] \in {"success", "failure", "skipped"}
  /\ \A s \in Range(StepIds(i + 1)) : stepStatus[s] = "pending"

\* a step of layer i failed (and may since have been skipped), or abort was accepted
PauseExcused(i) ==
  \/ abortSignal
  \/ /\ i < Len(plan.layers)
     /\ \E s \in Range(StepIds(i)) : stepStatus[s] \in {"failed", "skipped"}

\* C6: a pause accepted while layer i executes, with a later layer, no failed step
\* in layer i and no abort, leads to the status paused with currentLayerIndex
\* = i + 1, every step of layer i done and its CI waits over, and every step of
\* layer i + 1 pending; and no step is in progress while the execution is paused.
C6_PauseAtBoundary ==
  /\ \A i \in 0..(NumNodes - 1) :
       (PauseRequested(i) /\ ~PauseExcused(i)) ~> (PausedAfter(i) \/ PauseExcused(i))
  /\ [](status = "paused" => \A s \in DOMAIN stepStatus : stepStatus[s] \notin InProgress)

\* a pause requested during the first layer's CI wait was honoured after it
C6_Witness ==
  /\ PausedAfter(0)
  /\ pauseSignal
  /\ plan.waitForCi
  /\ \E s \in Range(StepIds(0)) : ciStatus[s] = "success"

\* C7: an accepted resume finds the execution paused, sets it running and
\* re-enters the loop at the retained currentLayerIndex; the loop never goes back
\* to an earlier layer; and a step that is done or skipped keeps its status.
C7_ResumeSkipsFinished ==
  /\ [][(lastCall'.op = "resume" /\ lastCall'.ret)
          => (/\ status = "paused"
              /\ status' = "running"
              /\ loop' = [pc |-> "top", i |-> currentLayerIndex, origin |-> "resume"]
              /\ currentLayerIndex' = currentLayerIndex)]_vars
  /\ [][status # "none" => currentLayerIndex' >= currentLayerIndex]_vars
  /\ [][\A s \in DOMAIN stepStatus :
          stepStatus[s] \in {"done", "skipped"} => stepStatus'[s] = stepStatus[s]]_vars

\* C8: an accepted skipStep turns one failed step into skipped, takes one from
\* failedCount, adds one to skippedCount and changes nothing else of the execution;
\* skipStep on a failed step of the plan is accepted.
C8_SkipStepFrame ==
  [][lastCall'.op = "skipStep"
       => IF \E r \in DOMAIN stepStatus : stepStatus[r] = "failed" /\ stepStatus'[r] # "failed"
            THEN /\ lastCall'.ret
                 /\ \E r \in DOMAIN stepStatus :
                      /\ stepStatus[r] = "failed"
                      /\ stepStatus' = [stepStatus EXCEPT ![r] = "skipped"]
                 /\ failedCount' = failedCount - 1
                 /\ skippedCount' = skippedCount + 1
                 /\ UNCHANGED <<status, currentLayerIndex, completedCount, publishedVersion,
                                ciStatus, abortSignal, pauseSignal, loop, queue, ci,
                                history, plan, repos>>
            ELSE /\ ~lastCall'.ret
                 /\ UNCHANGED <<stepStatus, failedCount, skippedCount, status,
                                currentLayerIndex, completedCount>>]_vars

\* skipStep was just accepted on a paused execution, which is still paused
C8_Witness ==
  /\ lastCall = [op |-> "skipStep", ret |-> TRUE]
  /\ status = "paused"
  /\ skippedCount = 1
  /\ \E s \in DOMAIN stepStatus : stepStatus[s] = "skipped"

\* the place of a step status in the order of executeStep
StepRank(st) ==
  CASE st = "pending" -> 0
    [] st = "updating-deps" -> 1
    [] st = "installing" -> 2
    [] st = "testing" -> 3
    [] st = "committing" -> 4
    [] st = "pushing" -> 5
    [] OTHER -> 6

\* C9: a step's status only moves forward in the order of executeStep, testing is
\* entered only with runTests, failed is entered only from a non-terminal status,
\* skipped only from failed by skipStep, and failed is left only by skipStep.
C9_StepStatusForward ==
  [][\A s \in DOMAIN stepStatus :
       (s \in DOMAIN stepStatus' /\ stepStatus'[s] # stepStatus[s])
         => CASE stepStatus[s] = "failed" ->
                   stepStatus'[s] = "skipped" /\ lastCall'.op = "skipStep"
              [] stepStatus[s] \in {"done", "skipped"} -> FALSE
              [] OTHER ->
                   /\ stepStatus'[s] # "skipped"
                   /\ stepStatus'[s] = "testing" => plan.runTests
                   /\ stepStatus'[s] # "failed"
                        => StepRank(stepStatus'[s]) > StepRank(stepStatus[s])]_vars

\* C10: when executeLoop has thrown the status is failed, and the status is
\* failed only when executeLoop has thrown.
C10_EngineErrorFails ==
  (loop.pc = "thrown") <=> (status = "failed")

\* the CI wait of a step is over
CiFinished == {"success", "failure", "skipped"}

\* C11: with waitForCi set, when a step of a layer leaves pending the CI wait of
\* every step of the layer before it that is done without a published version is
\* over; and, unless abort was accepted, at most one step is waiting for CI.
C11_CiBeforeNextLayer ==
  /\ [][plan.waitForCi =>
          \A s \in DOMAIN stepStatus :
            (s \in DOMAIN stepStatus' /\ stepStatus[s] = "pending"
               /\ stepStatus'[s] # "pending")
              => \A t \in DOMAIN stepStatus :
                   (LayerOf(t) + 1 = LayerOf(s) /\ stepStatus[t] = "done"
                      /\ publishedVersion[t] = NoVersion)
                     => ciStatus[t] \in CiFinished]_vars
  /\ [](~abortSignal =>
          Cardinality({s \in DOMAIN ciStatus : ciStatus[s] \in {"pending", "running"}}) <= 1)

\* updatePackageJsonDeps: the versions executeStep writes into the manifest of the
\* repo of step s, one for each entry of the step's depsToUpdate
ManifestWrites(s) ==
  LET l == CHOOSE l \in DOMAIN plan.layers :
             \E k \in DOMAIN plan.layers[l].steps : plan.layers[l].steps[k].repoId = s
      k == CHOOSE k \in DOMAIN plan.layers[l].steps : plan.layers[l].steps[k].repoId = s
  IN Range(plan.layers[l].steps[k].depsToUpdate)

\* C12: when a step starts updating its manifest, the version it writes for a
\* dependency that is a step of an earlier layer with a stored published version is
\* that published version.
C12_PublishedVersionUsed ==
  [][\A s \in DOMAIN stepStatus :
       (s \in DOMAIN stepStatus' /\ stepStatus[s] # "updating-deps"
          /\ stepStatus'[s] = "updating-deps")
         => \A d \in DepIds(GetRepo(repos, s)) :
              (d \in DOMAIN stepStatus /\ LayerOf(d) < LayerOf(s)
                 /\ publishedVersion[d] # NoVersion)
                => \E w \in ManifestWrites(s) :
                     w.npmName = d /\ w.toVersion = publishedVersion[d]]_vars

\* C13: the history holds at most one entry of the execution; it holds one exactly
\* when the status is completed or aborted, and the entry's status is that status.
C13_HistorySavedOnce ==
  /\ Len(history) <= 1
  /\ (Len(history) = 1) <=> (status \in {"completed", "aborted"})
  /\ Len(history) = 1 => history[1].status = status

\* a resumed execution has completed and was saved as completed
C13_Witness ==
  /\ status = "completed"
  /\ resumes > 0
  /\ Len(history) = 1
  /\ history[1].status = "completed"
  /\ loop = NoLoop

\* C14: without a diff after staging the step's status after committing is done;
\* a step that goes from committing to done adds one to completedCount and no
\* commit was issued for it; a step is pushing only after its commit; and
\* completedCount is the number of done steps.
C14_NoDiffDone ==
  /\ [](AfterStaging(FALSE, TRUE) = "done")
  /\ [][\A s \in DOMAIN stepStatus :
          (stepStatus[s] = "committing" /\ stepStatus'[s] = "done")
            => (completedCount' = completedCount + 1 /\ s \notin queue'.committed)]_vars
  /\ [](\A s \in DOMAIN stepStatus : stepStatus[s] = "pushing" => s \in queue.committed)
  /\ [](completedCount = Cardinality({s \in DOMAIN stepStatus : stepStatus[s] = "done"}))

\* a step of the running layer is done without a commit, and is the one step counted
C14_Witness ==
  /\ loop.pc = "queue"
  /\ completedCount = 1
  /\ \E s \in Range(queue.items) :
       /\ stepStatus[s] = "done"
       /\ s \notin queue.committed
       /\ \A t \in DOMAIN stepStatus : stepStatus[t] = "done" => t = s

CiPcs == {"ciNext", "ciSlug", "ciTop", "ciSleep", "ciQuery", "ciResolve"}

Positions(items) == [k \in DOMAIN items |-> k]

\* C16: fn is called at most once for each position, in a run that has returned it
\* was called exactly once for each, and the returned list has one entry for each
\* item, in input order, with the item and what fn returned or an error; the run
\* over an empty list returns an empty list.
C16_EveryItemOnceInOrder ==
  /\ queue.state # "idle" =>
       \A i, j \in DOMAIN queue.order : queue.order[i] = queue.order[j] => i = j
  /\ queue.state = "resolved" =>
       /\ queue.order = Positions(queue.items)
       /\ DOMAIN queue.results = DOMAIN queue.items
       /\ \A k \in DOMAIN queue.items :
            /\ queue.results[k].item = queue.items[k]
            /\ queue.results[k].kind \in {"result", "error"}
            /\ queue.results[k].kind = "result" => queue.results[k].value = fn(queue.items[k])
  /\ queue.state # "rejected"

\* a run of three items with two workers has returned
C16_Witness ==
  /\ queue.state = "resolved"
  /\ queue.concurrency = 2
  /\ Len(queue.items) = 3
  /\ queue.results[1].kind = "result"
  /\ queue.results[3].kind = "result"

\* C17: the number of calls of fn in progress never exceeds the concurrency.
C17_ConcurrencyBound ==
  queue.state # "idle" =>
    /\ Cardinality(queue.active) <= queue.concurrency
    /\ Cardinality(queue.active) + queue.ready <= queue.concurrency

\* two calls of fn are in progress with concurrency 2 and a third item is waiting
C17_Witness ==
  /\ queue.state = "running"
  /\ queue.concurrency = 2
  /\ Cardinality(queue.active) = 2
  /\ queue.index < Len(queue.items)

\* C18: when fn throws for an item, that item's entry becomes an error, no other
\* entry changes, the worker goes on, and the run does not reject; the run
\* returns only when every item has its entry.
C18_ThrowIsRecorded ==
  /\ [][\A k \in DOMAIN queue.items :
          (queue.state # "idle" /\ k \in queue.active /\ k \notin queue'.active)
            => /\ queue'.results[k].kind \in {"result", "error"}
               /\ queue'.results[k].item = queue.items[k]
               /\ \A j \in DOMAIN queue.items \ {k} : queue'.results[j] = queue.results[j]
               /\ queue'.ready = queue.ready + 1
               /\ queue'.state = queue.state]_vars
  /\ [](queue.state \in {"idle", "running", "resolved"})
  /\ [](queue.state = "resolved" =>
          \A k \in DOMAIN queue.items : queue.results[k].kind # "none")

\* fn threw for the second of three items; the run has returned with the results
\* of the first and the third
C18_Witness ==
  /\ queue.state = "resolved"
  /\ Len(queue.items) = 3
  /\ queue.results[2].kind = "error"
  /\ queue.results[1].kind = "result"
  /\ queue.results[3].kind = "result"

\* C19: with concurrency 1 at most one call of fn is in progress, the calls are
\* made in input order, and the call for an item is made only when every earlier
\* item has its entry.
C19_SequentialInOrder ==
  (queue.state # "idle" /\ queue.concurrency = 1) =>
    /\ Cardinality(queue.active) <= 1
    /\ queue.order = SubSeq(Positions(queue.items), 1, Len(queue.order))
    /\ \A k \in DOMAIN queue.items :
         k \in queue.active => \A j \in 1..(k - 1) : queue.results[j].kind # "none"

\* with concurrency 1 the third item is in progress after the first two
C19_Witness ==
  /\ queue.state = "running"
  /\ queue.concurrency = 1
  /\ queue.order = <<1, 2, 3>>
  /\ queue.active = {3}

\* the index of the layer of ls that holds id
LayerIndexOf(ls, id) == CHOOSE l \in DOMAIN ls : \E k \in DOMAIN ls[l] : ls[l][k] = id

\* C20: for an acyclic repo list whose dependencies all name repos of the list, the
\* layers of the built graph hold every repo exactly once, every repo lies in a
\* layer above those of its dependencies, and layer 0 holds exactly the repos
\* without dependencies.
C20_LayersRespectDependencies ==
  (graph # NoGraph /\ Acyclic(repos)) =>
    LET ls == graph.layers
    IN /\ \A n \in DOMAIN repos :
            Cardinality({p \in {<<l, k>> : l \in DOMAIN ls, k \in 1..Len(repos)} :
                           p[2] \in DOMAIN ls[p[1]] /\ ls[p[1]][p[2]] = repos[n].id}) = 1
       /\ \A l \in DOMAIN ls : \A k \in DOMAIN ls[l] : HasRepo(repos, ls[l][k])
       /\ \A n \in DOMAIN repos : \A d \in DepIds(repos[n]) :
            LayerIndexOf(ls, repos[n].id) > LayerIndexOf(ls, d)
       /\ 0 \in DOMAIN ls
       /\ Range(ls[0]) = {repos[n].id : n \in {m \in DOMAIN repos : DepIds(repos[m]) = {}}}

\* the graph of a repo list in which 3 depends on 1 and 2, and 2 on 1, was built:
\* three layers
C20_Witness ==
  /\ graph # NoGraph
  /\ Acyclic(repos)
  /\ DepIds(repos[3]) = {1, 2}
  /\ DepIds(repos[2]) = {1}
  /\ graph.layers = (0 :> <<1>> @@ 1 :> <<2>> @@ 2 :> <<3>>)

\* the number of positions of the sequence s that hold x
Occurrences(s, x) == Cardinality({k \in DOMAIN s : s[k] = x})

\* the first position of the sequence s that holds x
IndexOf(s, x) == CHOOSE k \in DOMAIN s : s[k] = x /\ \A j \in DOMAIN s : s[j] = x => k <= j

\* C21: for every acyclic repo list, topologicalSort returns each repo id exactly
\* once and nothing else, and every resolved dependency of a repo stands before
\* that repo.
C21_DependenciesSortedFirst ==
  (lastCall.op = "topologicalSort" /\ Acyclic(repos)) =>
    LET sorted == lastCall.ret
    IN /\ Len(sorted) = Len(repos)
       /\ \A n \in DOMAIN repos : Occurrences(sorted, repos[n].id) = 1
       /\ \A n \in DOMAIN repos : \A d \in DepIds(repos[n]) :
            IndexOf(sorted, d) < IndexOf(sorted, repos[n].id)

\* the diamond listed as 4, 3, 2, 1 was sorted: 1 first, 4 last
C21_Witness ==
  /\ lastCall.op = "topologicalSort"
  /\ [k \in DOMAIN repos |-> repos[k].id] = <<4, 3, 2, 1>>
  /\ Acyclic(repos)
  /\ lastCall.ret = <<1, 3, 2, 4>>

RECURSIVE DependentsAt(_, _, _)
\* the ids that n steps along the dependents relation lead to from repoId
DependentsAt(rs, repoId, n) ==
  IF n = 0 THEN {repoId}
  ELSE UNION {Range(GetRepo(rs, id).dependents) :
              id \in {x \in DependentsAt(rs, repoId, n - 1) : HasRepo(rs, x)}}

\* the ids reachable from repoId over the dependents relation, repoId excluded
ReachableDependents(rs, repoId) ==
  UNION {DependentsAt(rs, repoId, n) : n \in 1..Len(rs)} \ {repoId}

\* the least number of steps along the dependents relation from repoId to id
Distance(rs, repoId, id) ==
  CHOOSE n \in 1..Len(rs) :
    /\ id \in DependentsAt(rs, repoId, n)
    /\ \A m \in 1..(n - 1) : id \notin DependentsAt(rs, repoId, m)

\* C22: getAffected(source) returns exactly the repos reachable from the source
\* over the dependents relation, never the source, each once, with layer equal to
\* its least distance from the source; totalCount is the number of entries; in the
\* diamond the repo that depends on both dependents of the source is reported once,
\* at layer 2.
C22_AffectedIsBreadthFirst ==
  lastCall.op = "getAffected" =>
    LET affected == lastCall.ret.affected
        ids == [k \in DOMAIN affected |-> affected[k].id]
    IN /\ lastCall.ret.sourceId = lastCall.arg
       /\ Range(ids) = ReachableDependents(repos, lastCall.arg)
       /\ lastCall.arg \notin Range(ids)
       /\ \A k, j \in DOMAIN ids : ids[k] = ids[j] => k = j
       /\ \A k \in DOMAIN affected :
            affected[k].layer = Distance(repos, lastCall.arg, affected[k].id)
       /\ lastCall.ret.totalCount = Len(affected)
       /\ ({repos[k].id : k \in DOMAIN repos} = DOMAIN DiamondDeps
           /\ (\A k \in DOMAIN repos : DepIds(repos[k]) = DiamondDeps[repos[k].id])
           /\ lastCall.arg = 1)
          => /\ Occurrences(ids, 4) = 1
             /\ affected[IndexOf(ids, 4)].layer = 2

\* getAffected was called on the source of the diamond: three entries, the last of
\* them the repo reachable along two paths
C22_Witness ==
  /\ lastCall.op = "getAffected"
  /\ lastCall.arg = 1
  /\ Len(repos) = 4
  /\ \A k \in DOMAIN repos : DepIds(repos[k]) = DiamondDeps[repos[k].id]
  /\ lastCall.ret.totalCount = 3
  /\ lastCall.ret.affected[3].id = 4
  /\ lastCall.ret.affected[3].layer = 2

\* C23: for the repo list lib-a (no dependencies), lib-b (depends on lib-a), lib-c
\* (depends on lib-a and lib-b), dependents the inverse of the dependencies,
\* getAffected(lib-a) has totalCount 2, reports lib-b at layer 1 and lib-c at
\* layer 2, and gives lib-c the dependency path lib-a, lib-b, lib-c.
C23_ChainLayers ==
  (/\ lastCall.op = "getAffected"
   /\ lastCall.arg = 1
   /\ Len(repos) = 3
   /\ \A k \in DOMAIN repos : DepIds(repos[k]) = ChainDeps[repos[k].id])
  => LET affected == lastCall.ret.affected
         ids == [k \in DOMAIN affected |-> affected[k].id]
     IN /\ lastCall.ret.totalCount = 2
        /\ Range(ids) = {2, 3}
        /\ affected[IndexOf(ids, 2)].layer = 1
        /\ affected[IndexOf(ids, 3)].layer = 2
        /\ affected[IndexOf(ids, 3)].dependencyPath = <<1, 2, 3>>

\* the (id, layer) pairs of a getAffected result
AffectedLayers(result) ==
  {<<result.affected[k].id, result.affected[k].layer>> : k \in DOMAIN result.affected}

\* C24: getAffected(x) returns the same affected ids with the same layers in every
\* order of the repo list given to the resolver, whether the repos are listed
\* again as they are or their dependents are collected again in the new order.
C24_AffectedIgnoresListOrder ==
  lastCall.op = "getAffected" =>
    LET ids == {repos[k].id : k \in DOMAIN repos}
        deps == [id \in ids |-> DepIds(GetRepo(repos, id))]
    IN \A p \in Orders(ids) :
         /\ AffectedLayers(getAffected([k \in DOMAIN p |-> GetRepo(repos, p[k])],
                                       lastCall.arg))
              = AffectedLayers(lastCall.ret)
         /\ AffectedLayers(getAffected(MakeRepos(p, deps), lastCall.arg))
              = AffectedLayers(lastCall.ret)

\* getAffected was called on a resolver whose list holds the source last and the
\* farthest dependent first
C24_Witness ==
  /\ lastCall.op = "getAffected"
  /\ lastCall.arg = 1
  /\ [k \in DOMAIN repos |-> repos[k].id] = <<3, 2, 1>>
  /\ DepIds(repos[1]) = {1, 2}
  /\ DepIds(repos[2]) = {1}
  /\ AffectedLayers(lastCall.ret) = {<<2, 1>>, <<3, 1>>}

\* C25: queries on an id the resolver does not hold return neutral results:
\* getAffected an empty affected list with totalCount 0, getDependencies and
\* getDependents empty lists, and createPlan a plan with no layers and totalRepos 0
\* for which the version registry was not asked.
C25_UnknownIdIsNeutral ==
  (lastCall.op # "none" /\ ~HasRepo(repos, lastCall.arg)) =>
    /\ lastCall.op = "getAffected" =>
         (lastCall.ret.affected = <<>> /\ lastCall.ret.totalCount = 0)
    /\ lastCall.op \in {"getDependencies", "getDependents"} => lastCall.ret = <<>>
    /\ lastCall.op = "createPlan" =>
         /\ plan.sourceRepoId = lastCall.arg
         /\ plan.layers = <<>>
         /\ plan.totalRepos = 0
         /\ lastCall.registryCalls = 0

\* createPlan was called for a source id that is not among the repos of a list in
\* which every repo has dependents or dependencies
C25_Witness ==
  /\ lastCall.op = "createPlan"
  /\ lastCall.arg = UnknownRepo
  /\ ~HasRepo(repos, UnknownRepo)
  /\ \E k \in DOMAIN repos : repos[k].dependents # <<>>
  /\ plan.layers = <<>>
  /\ plan.totalRepos = 0
  /\ lastCall.registryCalls = 0

\* everything but lastCall stays as it is
NothingChanges ==
  UNCHANGED <<repos, plan, parallelLimit, graph, status, currentLayerIndex, completedCount,
              failedCount, skippedCount, stepStatus, publishedVersion, ciStatus,
              abortSignal, pauseSignal, loop, queue, ci, history, resumes>>

\* the step of repoId that skipStep looks for is missing or not failed (no
\* execution, no such step, or a step in another status)
NoFailedStep(repoId) ==
  \/ status = "none"
  \/ repoId \notin DOMAIN stepStatus
  \/ stepStatus[repoId] # "failed"

\* C26: a control operation called where it is not valid returns false and changes
\* nothing: abort on an execution that is neither running nor paused, pause on one
\* that is not running, resume on one that is not paused, skipStep for a step that
\* is not failed, and each of them or setPublishedVersion for an execution or a
\* repo id that does not exist.
C26_InvalidCallChangesNothing ==
  [][/\ (abort /\ status \notin {"running", "paused"})
          => (lastCall' = [op |-> "abort", ret |-> FALSE] /\ NothingChanges)
     /\ (pause /\ status # "running")
          => (lastCall' = [op |-> "pause", ret |-> FALSE] /\ NothingChanges)
     /\ (resume /\ status # "paused")
          => (lastCall' = [op |-> "resume", ret |-> FALSE] /\ NothingChanges)
     /\ \A r \in DOMAIN stepStatus \cup {UnknownRepo} :
          /\ (skipStep(r) /\ NoFailedStep(r))
               => (lastCall' = [op |-> "skipStep", ret |-> FALSE] /\ NothingChanges)
          /\ (setPublishedVersion(r, RegistryVersion(r))
              /\ (status = "none" \/ r \notin DOMAIN stepStatus))
               => (lastCall' = [op |-> "setPublishedVersion", ret |-> FALSE]
                   /\ NothingChanges)]_vars

\* pause was refused on a paused execution that holds a failed step
C26_Witness ==
  /\ lastCall = [op |-> "pause", ret |-> FALSE]
  /\ status = "paused"
  /\ pauseSignal = FALSE
  /\ \E s \in DOMAIN stepStatus : stepStatus[s] = "failed"

\* C27: once abort has been accepted (the abort signal is set), no step starts:
\* a step that is pending or failed keeps its status, except that skipStep may
\* turn a failed step into a skipped one; the abort itself changes no step, so
\* the steps in flight go on as they were.
C27_NoStepStartsAfterAbort ==
  [][/\ abortSignal =>
          \A s \in DOMAIN stepStatus :
            stepStatus[s] \in {"pending", "failed"} =>
              \/ stepStatus'[s] = stepStatus[s]
              \/ /\ stepStatus[s] = "failed"
                 /\ stepStatus'[s] = "skipped"
                 /\ lastCall'.op = "skipStep"
     /\ (~abortSignal /\ abortSignal') => stepStatus' = stepStatus]_vars

\* an execution ended aborted with a layer of which one step is done and another
\* still pending: abort came while the first was in flight, the first ran to its
\* end and the second never started
C27_Witness ==
  /\ status = "aborted"
  /\ abortSignal
  /\ \E i \in 0..(Len(plan.layers) - 1) : \E s, t \in Range(StepIds(i)) :
       /\ stepStatus[s] = "done"
       /\ stepStatus[t] = "pending"

\* the steps of the execution that are in an in-progress status
StepsInProgress == {s \in DOMAIN stepStatus : stepStatus[s] \in InProgress}

\* C28: at every instant the steps in an in-progress status are at most as many
\* as the parallel limit, at most one when the mode of the layer at
\* currentLayerIndex is sequential, and all of them are steps of that layer.
C28_InProgressWithinLimit ==
  StepsInProgress # {} =>
    /\ Cardinality(StepsInProgress) <= parallelLimit
    /\ currentLayerIndex < Len(plan.layers)
    /\ StepsInProgress \subseteq Range(StepIds(currentLayerIndex))
    /\ plan.layers[currentLayerIndex + 1].mode = "sequential"
         => Cardinality(StepsInProgress) <= 1

\* two steps of a parallel layer are in progress at once under a parallel limit
\* of two
C28_Witness ==
  /\ parallelLimit = 2
  /\ Cardinality(StepsInProgress) = 2
  /\ plan.layers[currentLayerIndex + 1].mode = "parallel"
  /\ StepsInProgress = Range(StepIds(currentLayerIndex))

\* the queue of a layer is running, no abort was signalled, and a step of the run
\* has failed
FailureInLayer ==
  /\ loop.pc = "queue"
  /\ ~abortSignal
  /\ \E k \in DOMAIN queue.items : stepStatus[queue.items[k]] = "failed"

\* C29: a failing sub-operation or a missing repo sets its step to failed and
\* increases failedCount by exactly one, leaving the loop, the status of the
\* execution and the other steps as they are (nothing is thrown out of the
\* engine); the run of the layer goes on: unless abort is signalled it ends, and
\* when it ends every step of the layer is done, failed or skipped.
C29_StepFailureIsContained ==
  /\ [][\A s \in DOMAIN stepStatus :
          (stepStatus[s] \in InProgress \cup {"pending"} /\ stepStatus'[s] = "failed") =>
            /\ failedCount' = failedCount + 1
            /\ completedCount' = completedCount
            /\ loop' = loop
            /\ loop.pc = "queue"
            /\ status' = status
            /\ status = "running"
            /\ \A t \in DOMAIN stepStatus \ {s} : stepStatus'[t] = stepStatus[t]]_vars
  /\ [][(loop.pc = "queue" /\ loop'.pc # "queue" /\ ~abortSignal) =>
          \A s \in Range(StepIds(loop.i)) : stepStatus[s] \in Terminal]_vars
  /\ FailureInLayer ~> (abortSignal \/ loop.pc # "queue")

\* the layer of a step that failed for a missing repo ended in a pause with its
\* other step done
C29_Witness ==
  /\ status = "paused"
  /\ ~abortSignal
  /\ failedCount = 1
  /\ completedCount = 1
  /\ \E s, t \in Range(StepIds(currentLayerIndex)) :
       /\ ~HasRepo(repos, s)
       /\ stepStatus[s] = "failed"
       /\ stepStatus[t] = "done"

\* C30: once the execution is completed, aborted or failed, its status, its
\* tallies and the status of each of its steps never change again, whatever is
\* called afterwards.
C30_TerminalExecutionFrozen ==
  [][(status \in {"completed", "aborted", "failed"}) =>
       (UNCHANGED <<status, completedCount, failedCount, skippedCount, stepStatus>>)]_vars

\* C31: a CI wait issues at most maxAttempts (80) status queries; when the
\* attempts run out the step's ciStatus becomes failure and the wait is over; once
\* a query is under way with abort signalled, no further query is prepared, so at
\* most one query follows an abort; and every CI wait ends.
C31_CiWaitIsBounded ==
  /\ [](/\ ci.attempt <= maxAttempts
        /\ loop.pc \in {"ciSleep", "ciQuery"} => ci.attempt < maxAttempts)
  /\ [][(loop.pc = "ciTop" /\ ci.attempt = maxAttempts /\ loop' # loop)
          => (ciStatus'[ci.steps[ci.k]] = "failure" /\ loop'.pc = "ciNext")]_vars
  /\ []((loop.pc = "ciQuery" /\ abortSignal) => [](loop.pc # "ciSleep"))
  /\ (loop.pc \in CiPcs) ~> (loop.pc \notin CiPcs)

\* a CI wait in which a query had answered running was ended by an abort: the
\* step's ciStatus is still running and no wait is going on
C31_Witness ==
  /\ abortSignal
  /\ loop.pc \notin CiPcs
  /\ ci = NoCi
  /\ \E s \in DOMAIN stepStatus : stepStatus[s] = "done" /\ ciStatus[s] = "running"

RECURSIVE DependenciesAt(_, _, _)
\* the ids that n steps along the dependencies lead to from id
DependenciesAt(rs, id, n) ==
  IF n = 0 THEN {id}
  ELSE UNION {DepIds(GetRepo(rs, d)) :
              d \in {x \in DependenciesAt(rs, id, n - 1) : HasRepo(rs, x)}}

\* the ids id depends on, directly or through other repos
DependencyClosure(rs, id) == UNION {DependenciesAt(rs, id, n) : n \in 1..Len(rs)}

\* id lies on a dependency cycle, or depends directly or through other repos on a
\* repo that does
BehindCycle(rs, id) ==
  \E c \in {id} \cup DependencyClosure(rs, id) : c \in DependencyClosure(rs, c)

\* the number of places at which the layers ls hold id
LayerPlaces(ls, id) ==
  Cardinality({p \in {<<l, k>> : l \in DOMAIN ls, k \in 1..Len(repos)} :
                 p[2] \in DOMAIN ls[p[1]] /\ ls[p[1]][p[2]] = id})

\* C32: for every repo list, with or without dependency cycles, topologicalSort
\* and calculateLayers return, name only repos of the list, and hold a repo once
\* when it neither lies on a cycle nor depends, directly or through others, on a
\* repo that does, and not at all otherwise.
C32_CyclesAreOmitted ==
  /\ lastCall.op = "topologicalSort" =>
       /\ Range(lastCall.ret) \subseteq {repos[n].id : n \in DOMAIN repos}
       /\ \A n \in DOMAIN repos :
            Occurrences(lastCall.ret, repos[n].id)
              = IF BehindCycle(repos, repos[n].id) THEN 0 ELSE 1
  /\ graph # NoGraph =>
       /\ \A l \in DOMAIN graph.layers : \A k \in DOMAIN graph.layers[l] :
            HasRepo(repos, graph.layers[l][k])
       /\ \A n \in DOMAIN repos :
            LayerPlaces(graph.layers, repos[n].id)
              = IF BehindCycle(repos, repos[n].id) THEN 0 ELSE 1

\* the graph was built and the list sorted for repos of which 2 and 3 depend on
\* each other and 1 on nothing: both hold repo 1 only
C32_Witness ==
  /\ Len(repos) = 3
  /\ \A n \in DOMAIN repos :
       DepIds(repos[n]) = (1 :> {} @@ 2 :> {3} @@ 3 :> {2})[repos[n].id]
  /\ lastCall.op = "topologicalSort"
  /\ lastCall.ret = <<1>>
  /\ graph # NoGraph
  /\ graph.layers = (0 :> <<1>>)

\* the places <<layer position, step position>> of plan p that hold a step of repo r
StepPlaces(p, r) ==
  {x \in {<<l, k>> : l \in DOMAIN p.layers, k \in 1..Len(repos)} :
     x[2] \in DOMAIN p.layers[x[1]].steps /\ p.layers[x[1]].steps[x[2]].repoId = r}

RECURSIVE StepCount(_, _)
\* the number of steps in the first l layers of plan p
StepCount(p, l) == IF l = 0 THEN 0 ELSE StepCount(p, l - 1) + Len(p.layers[l].steps)

\* C33: the plan createPlan returns has exactly one step for every affected repo
\* and none for any other, every step pending; its layers come in strictly
\* increasing layerIndex, the first with layerIndex 1 and exactly the direct
\* dependents of the source; a layer is parallel exactly when it holds more than
\* one step; totalRepos is the number of steps.
C33_PlanShape ==
  lastCall.op = "createPlan" =>
    LET source == lastCall.arg
        affected == ReachableDependents(repos, source)
    IN /\ plan.sourceRepoId = source
       /\ PlanSteps(plan) = affected
       /\ \A r \in affected : Cardinality(StepPlaces(plan, r)) = 1
       /\ \A l \in DOMAIN plan.layers : \A k \in DOMAIN plan.layers[l].steps :
            plan.layers[l].steps[k].status = "pending"
       /\ \A l \in DOMAIN plan.layers :
            /\ plan.layers[l].steps # <<>>
            /\ l > 1 => plan.layers[l - 1].layerIndex < plan.layers[l].layerIndex
            /\ plan.layers[l].mode
                 = IF Len(plan.layers[l].steps) > 1 THEN "parallel" ELSE "sequential"
       /\ plan.layers # <<>> =>
            /\ plan.layers[1].layerIndex = 1
            /\ {plan.layers[1].steps[k].repoId : k \in DOMAIN plan.layers[1].steps}
                 = Range(GetRepo(repos, source).dependents) \ {source}
       /\ plan.totalRepos = StepCount(plan, Len(plan.layers))

\* the plan for the source of the diamond: a parallel layer of two steps, then a
\* sequential layer of one
C33_Witness ==
  /\ lastCall.op = "createPlan"
  /\ lastCall.arg = 1
  /\ Len(repos) = 4
  /\ Len(plan.layers) = 2
  /\ plan.layers[1].mode = "parallel"
  /\ Len(plan.layers[1].steps) = 2
  /\ plan.layers[2].mode = "sequential"
  /\ plan.layers[2].steps[1].repoId = 4
  /\ plan.totalRepos = 3

\* the version a plan for source puts in place of a dependency on repo d: for the
\* source what the registry holds, or its local version when the registry holds
\* none; for another repo its local version
TargetVersion(source, published, d) ==
  IF d = source /\ published # NoVersion THEN published ELSE GetRepo(repos, d).version

\* C34: in the plan createPlan returns, the step of a repo in the layer at
\* position l has a substitution for exactly those of the repo's dependencies that
\* are the source or have their step in a layer before position l, each once, from
\* the dependency's version spec to the target version; dependencies on repos of
\* the same layer, of a later layer or without a step get none.
C34_SubstitutionsFollowLayers ==
  lastCall.op = "createPlan" =>
    \A l \in DOMAIN plan.layers : \A k \in DOMAIN plan.layers[l].steps :
      LET step == plan.layers[l].steps[k]
          deps == GetRepo(repos, step.repoId).dependencies
          earlier == {d \in PlanSteps(plan) : \E x \in StepPlaces(plan, d) : x[1] < l}
          upstream == IF HasRepo(repos, lastCall.arg)
                        THEN earlier \cup {lastCall.arg} ELSE earlier
          wanted == {[npmName |-> deps[j].repoId, fromVersion |-> deps[j].versionSpec,
                      toVersion |-> TargetVersion(lastCall.arg, lastCall.published,
                                                  deps[j].repoId)] :
                     j \in {i \in DOMAIN deps : deps[i].repoId \in upstream}}
      IN /\ Range(step.depsToUpdate) = wanted
         /\ Len(step.depsToUpdate) = Cardinality(wanted)

\* the plan for source 1 of the list in which 2 depends on 1 and 3 on 1 and 2, the
\* registry holding a version of the source: 2 and 3 share the first layer, and the
\* step of 3 has a substitution for 1 only
C34_Witness ==
  /\ lastCall.op = "createPlan"
  /\ lastCall.arg = 1
  /\ lastCall.published = RegistryVersion(1)
  /\ Len(repos) = 3
  /\ \A n \in DOMAIN repos : DepIds(repos[n]) = ChainDeps[repos[n].id]
  /\ \E k \in DOMAIN plan.layers[1].steps :
       /\ plan.layers[1].steps[k].repoId = 3
       /\ plan.layers[1].steps[k].depsToUpdate
            = <<[npmName |-> 1, fromVersion |-> LocalVersion(1),
                 toVersion |-> RegistryVersion(1)]>>

\* the number of steps of the execution in status st
StepsIn(st) == Cardinality({s \in DOMAIN stepStatus : stepStatus[s] = st})

\* C35: in every state of an execution completedCount is the number of its steps
\* that are done, failedCount the number that are failed and skippedCount the
\* number that are skipped, so that their sum is at most totalRepos.
C35_TalliesCountSteps ==
  status # "none" =>
    /\ completedCount = StepsIn("done")
    /\ failedCount = StepsIn("failed")
    /\ skippedCount = StepsIn("skipped")
    /\ completedCount + failedCount + skippedCount <= plan.totalRepos

\* C36: whenever the execution is completed, every step of its plan is done or
\* skipped.
C36_CompletedMeansAllDone ==
  status = "completed" => \A s \in DOMAIN stepStatus : stepStatus[s] \in {"done", "skipped"}


\* C37: at most one execution loop is active at any time: while the execution is
\* paused the loop has returned and no worker holds a step, resume starts a loop
\* only from that state, and a worker takes a step only when no worker is driving
\* it, so every step in progress is held by exactly the one queue of the one loop.
C37_OneLoopAtATime ==
  /\ [](status = "paused" => (loop = NoLoop /\ queue = NoQueue /\ StepsInProgress = {}))
  /\ [](StepsInProgress # {} => (loop.pc = "queue" /\ StepsInProgress \subseteq queue.active))
  /\ [][(lastCall'.op = "resume" /\ lastCall'.ret)
          => (/\ status = "paused"
              /\ loop.pc = "idle"
              /\ queue.active = {}
              /\ loop'.pc = "top"
              /\ loop'.origin = "resume")]_vars
  /\ [][\A s \in queue'.active \ queue.active : stepStatus[s] \notin InProgress]_vars

\* a resumed loop is driving a step that an earlier loop left failed
C37_Witness ==
  /\ loop.origin = "resume"
  /\ loop.pc = "queue"
  /\ resumes = MaxResumes
  /\ StepsInProgress # {}
  /\ failedCount > 0


\* C38: currentLayerIndex never decreases during the life of an execution, and
\* every step of a layer positioned before currentLayerIndex is done or skipped.
C38_LayerIndexAdvances ==
  /\ [][currentLayerIndex' >= currentLayerIndex]_vars
  /\ [](\A s \in DOMAIN stepStatus :
          LayerOf(s) < currentLayerIndex => stepStatus[s] \in {"done", "skipped"})

\* a resumed loop has reached the second layer after a step of the first layer
\* failed and was skipped
C38_Witness ==
  /\ currentLayerIndex > 0
  /\ loop.origin = "resume"
  /\ \E s \in DOMAIN stepStatus : LayerOf(s) < currentLayerIndex /\ stepStatus[s] = "skipped"
  /\ \E s \in DOMAIN stepStatus : LayerOf(s) = currentLayerIndex /\ stepStatus[s] \in InProgress


\* C39: an execution never stays running for ever: from status 'running' it
\* eventually reaches 'paused', 'completed', 'aborted' or 'failed', in the run
\* started by startExecution and in every run started by resume.
C39_RunningEnds ==
  (status = "running") ~> (status \in {"paused", "completed", "aborted", "failed"})

====
